---------------------------- MODULE Spec2Model ----------------------------
(***************************************************************************)
(* Model of the tasker backend: the in-memory entity store                 *)
(* (backend/src/storage.rs), the task and user services on top of it       *)
(* (backend/src/services/*.rs) and snapshot persistence.                   *)
(*                                                                         *)
(* Strings that the code inspects (identifiers, page tokens) are sequences *)
(* of characters, so "" is <<>> and is_empty() is a comparison with <<>>.  *)
(* Option<T> is a sequence of at most one element: None == <<>>.           *)
(***************************************************************************)
EXTENDS Integers, Sequences, FiniteSets, TLC

VARIABLES
    data,       \* StorageData: users, users_by_email, users_by_username, tasks, user_tasks
    iter,       \* iteration order of the two primary HashMaps (users, tasks)
    now,        \* SystemTime::now(), in seconds
    uuid,       \* how many identifiers Uuid::new_v4() has handed out, per kind
    disk,       \* the data directory: the snapshot, its ".tmp" sibling, the backup
    last,       \* the response last returned, with its request
    lock,       \* the RwLock around StorageData: its readers and its writer
    pc,         \* per request-handling task: its position in its handler
    loc,        \* per request-handling task: its local variables
    stream,     \* per subscriber, its event stream: channel, producer task, consumer
    calls       \* the import and the upload in progress, and a client paging the task list

vars == <<data, iter, now, uuid, disk, last, lock, pc, loc, stream, calls>>

-----------------------------------------------------------------------------
(* Bounds of the model *)

MaxUsers == 2        \* users created, in every specification
MaxTasks == 1        \* tasks created in Spec
MaxPatchTasks == 2   \* tasks created in SpecPatch
MaxListTasks == 3    \* tasks created in SpecList
MaxConcTasks == 1    \* tasks created in SpecConc and SpecReaders
MaxCreateTasks == 3  \* tasks created in SpecCreate
MaxOverdueTasks == 2 \* tasks created in SpecOverdue
MaxSaveTasks == 2    \* tasks created in SpecSave
MaxLoadTasks == 2    \* tasks created in SpecRoundTrip, SpecLoad and SpecFault
NumProcs == 2        \* request-handling tasks running concurrently
MaxPageSize == 2     \* largest page_size requested in SpecList
MaxTime == 1         \* how far the clock advances
MaxEvents == 12      \* events the producer of a stream builds
MaxImport == 3       \* inbound elements of an import
MaxChunks == 2       \* chunks of an upload
MaxDeleteTasks == 2  \* tasks created in SpecDelete
MaxUpsertTasks == 1  \* tasks created in SpecUpsert
MaxWalk == 4         \* requests a paging client makes in SpecWalk
MaxAtomic == 2       \* users and tasks created in SpecAtomic
MaxLiveTasks == 1
MaxFlow == 12
MaxOwnedTasks == 2
MaxRaceTasks == 1

-----------------------------------------------------------------------------
(* Generic helpers *)

None == <<>>
Some(x) == <<x>>

Range(s) == {s[i] : i \in 1..Len(s)}

Min(a, b) == IF a < b THEN a ELSE b

\* HashMap::insert / HashMap::remove / HashMap::get
Insert(m, k, v) == [x \in (DOMAIN m) \cup {k} |-> IF x = k THEN v ELSE m[x]]
Remove(m, k) == [x \in (DOMAIN m) \ {k} |-> m[x]]
Get(m, k) == IF k \in DOMAIN m THEN Some(m[k]) ELSE None

EmptyMap == [x \in {} |-> None]

\* Vec::retain(|x| keep)
RECURSIVE Retain(_, _)
Retain(s, drop) ==
    IF s = <<>> THEN <<>>
    ELSE IF Head(s) \in drop THEN Retain(Tail(s), drop)
         ELSE <<Head(s)>> \o Retain(Tail(s), drop)

\* Iterator::skip(n) and Iterator::take(n)
Skip(s, n) == IF n >= Len(s) THEN <<>> ELSE SubSeq(s, n + 1, Len(s))
Take(s, n) == SubSeq(s, 1, Min(n, Len(s)))

RECURSIVE Perms(_)
Perms(S) ==
    IF S = {} THEN {<<>>}
    ELSE UNION {{<<x>> \o p : p \in Perms(S \ {x})} : x \in S}

RECURSIVE SomeOrder(_)
SomeOrder(S) ==
    IF S = {} THEN <<>>
    ELSE LET x == CHOOSE y \in S : TRUE IN <<x>> \o SomeOrder(S \ {x})

\* What is known of a HashMap's iteration order: `order` is the order the
\* last iteration went through, `stale` tells that the table may have been
\* rehashed since, so that the next iteration may go through any order.
\* A map of at most one key has one order.
Seen(o) == [order |-> o, stale |-> FALSE]
Unseen(keys) ==
    IF Cardinality(keys) <= 1 THEN Seen(SomeOrder(keys))
    ELSE [order |-> <<>>, stale |-> TRUE]

\* The iteration order `it` after mutations that leave `keys` in the map:
\* HashMap::insert reserves room for one more entry before it looks the key
\* up, so any insert (on a new key or on an existing one) may rehash the
\* table, and a deserialized map is a new table; after either the order is
\* arbitrary. HashMap::remove leaves the other entries where they are.
After(it, keys, inserted) ==
    IF inserted \/ it.stale THEN Unseen(keys)
    ELSE Seen(Retain(it.order, Range(it.order) \ keys))

\* the orders the next HashMap::values() over `keys` may go through
NextOrders(it, keys) ==
    IF it.stale THEN Perms(keys) ELSE {Retain(it.order, Range(it.order) \ keys)}

-----------------------------------------------------------------------------
(* Identifiers *)

UserId(n) == <<"u", n>>
TaskId(n) == <<"t", n>>
GhostId == <<"g">>

Emails == {"e1", "e2"}
Usernames == {"n1", "n2"}

\* TaskStatus. The generated enum is not among the sources: its values are
\* numbered from zero in the order the data model lists them, Unspecified,
\* Todo, InProgress, Done
STATUS_UNSPECIFIED == 0
STATUS_TODO == 1
STATUS_IN_PROGRESS == 2
STATUS_DONE == 3

\* the status count_overdue_tasks tests for ("Not completed")
COMPLETED == 4

-----------------------------------------------------------------------------
(* Storage: the operations of storage.rs on StorageData *)

StorageData_default ==
    [users |-> EmptyMap, users_by_email |-> EmptyMap,
     users_by_username |-> EmptyMap, tasks |-> EmptyMap,
     user_tasks |-> EmptyMap]

create_user(d, user) ==
    [d EXCEPT
        !.users = Insert(d.users, user.id, user),
        !.users_by_email = Insert(d.users_by_email, user.email, user.id),
        !.users_by_username = Insert(d.users_by_username, user.username, user.id),
        !.user_tasks = Insert(d.user_tasks, user.id, <<>>)]

get_user(d, user_id) == Get(d.users, user_id)

get_user_by_email(d, email) ==
    IF email \in DOMAIN d.users_by_email
    THEN Get(d.users, d.users_by_email[email])
    ELSE None

get_user_by_username(d, username) ==
    IF username \in DOMAIN d.users_by_username
    THEN Get(d.users, d.users_by_username[username])
    ELSE None

update_user(d, user) ==
    [d EXCEPT !.users = Insert(d.users, user.id, user)]

\* delete_user that also removes the tasks assigned to the user
delete_user_cascading(d, user_id) ==
    IF user_id \in DOMAIN d.users
    THEN [found |-> TRUE,
          data |-> [d EXCEPT
              !.users = Remove(d.users, user_id),
              !.users_by_email = Remove(d.users_by_email, d.users[user_id].email),
              !.users_by_username = Remove(d.users_by_username, d.users[user_id].username),
              !.user_tasks = Remove(d.user_tasks, user_id),
              !.tasks = [t \in {u \in DOMAIN d.tasks : d.tasks[u].assigned_to # user_id}
                           |-> d.tasks[t]]]]
    ELSE [found |-> FALSE, data |-> d]

\* returns the new data and the bool that delete_user returns
delete_user(d, user_id) ==
    IF user_id \in DOMAIN d.users
    THEN [found |-> TRUE,
          data |-> [d EXCEPT
              !.users = Remove(d.users, user_id),
              !.users_by_email = Remove(d.users_by_email, d.users[user_id].email),
              !.users_by_username = Remove(d.users_by_username, d.users[user_id].username),
              !.user_tasks = Remove(d.user_tasks, user_id)]]
    ELSE [found |-> FALSE, data |-> d]

create_task(d, task) ==
    [d EXCEPT
        !.tasks = Insert(d.tasks, task.id, task),
        !.user_tasks =
            IF task.assigned_to # <<>>
            THEN Insert(d.user_tasks, task.assigned_to,
                        (IF task.assigned_to \in DOMAIN d.user_tasks
                         THEN d.user_tasks[task.assigned_to] ELSE <<>>)
                        \o <<task.id>>)
            ELSE d.user_tasks]

get_task(d, task_id) == Get(d.tasks, task_id)

RECURSIVE batch_create_tasks(_, _)
\* the loop of batch_create_tasks under its one write guard
batch_create_tasks(d, tasks) ==
    IF tasks = <<>> THEN d
    ELSE batch_create_tasks(
             [d EXCEPT
                 !.tasks = Insert(d.tasks, Head(tasks).id, Head(tasks)),
                 !.user_tasks =
                     IF Head(tasks).assigned_to # <<>>
                     THEN Insert(d.user_tasks, Head(tasks).assigned_to,
                                 (IF Head(tasks).assigned_to \in DOMAIN d.user_tasks
                                  THEN d.user_tasks[Head(tasks).assigned_to] ELSE <<>>)
                                 \o <<Head(tasks).id>>)
                     ELSE d.user_tasks],
             Tail(tasks))

RECURSIVE batch_create_users(_, _)
\* the loop of batch_create_users under its one write guard
batch_create_users(d, users) ==
    IF users = <<>> THEN d
    ELSE batch_create_users(
             [d EXCEPT
                 !.users = Insert(d.users, Head(users).id, Head(users)),
                 !.users_by_email = Insert(d.users_by_email, Head(users).email,
                                           Head(users).id),
                 !.users_by_username = Insert(d.users_by_username, Head(users).username,
                                              Head(users).id),
                 !.user_tasks = Insert(d.user_tasks, Head(users).id, <<>>)],
             Tail(users))

\* PatchField with the "status" arm also copying the priority
PatchField_leaky(existing, patch, field) ==
    CASE field = "title"       -> [existing EXCEPT !.title = patch.title]
      [] field = "description" -> [existing EXCEPT !.description = patch.description]
      [] field = "status"      -> [existing EXCEPT !.status = patch.status,
                                                   !.priority = patch.priority]
      [] field = "priority"    -> [existing EXCEPT !.priority = patch.priority]
      [] field = "tags"        -> [existing EXCEPT !.tags = patch.tags]
      [] field = "assignedTo"  -> [existing EXCEPT !.assigned_to = patch.assigned_to]
      [] field = "due_date"    -> [existing EXCEPT !.due_date = patch.due_date]
      [] field = "metrics"     -> [existing EXCEPT !.metrics = patch.metrics]
      [] field = "comments"    -> [existing EXCEPT !.comments = patch.comments]
      [] field = "attachments" -> [existing EXCEPT !.attachments = patch.attachments]
      [] OTHER                 -> existing

\* one arm of the match in patch_task
PatchField(existing, patch, field) ==
    CASE field = "title"       -> [existing EXCEPT !.title = patch.title]
      [] field = "description" -> [existing EXCEPT !.description = patch.description]
      [] field = "status"      -> [existing EXCEPT !.status = patch.status]
      [] field = "priority"    -> [existing EXCEPT !.priority = patch.priority]
      [] field = "tags"        -> [existing EXCEPT !.tags = patch.tags]
      [] field = "assignedTo"  -> [existing EXCEPT !.assigned_to = patch.assigned_to]
      [] field = "due_date"    -> [existing EXCEPT !.due_date = patch.due_date]
      [] field = "metrics"     -> [existing EXCEPT !.metrics = patch.metrics]
      [] field = "comments"    -> [existing EXCEPT !.comments = patch.comments]
      [] field = "attachments" -> [existing EXCEPT !.attachments = patch.attachments]
      [] OTHER                 -> existing

\* the loop `for field in mask` of patch_task
RECURSIVE ApplyMask(_, _, _)
ApplyMask(existing, patch, mask) ==
    IF mask = <<>> THEN existing
    ELSE ApplyMask(PatchField(existing, patch, Head(mask)), patch, Tail(mask))

\* update_task that replaces a stored task and ignores an unknown one
update_task_existing(d, task) ==
    IF task.id \in DOMAIN d.tasks
    THEN [d EXCEPT !.tasks = Insert(d.tasks, task.id, task)]
    ELSE d

update_task(d, task) ==
    [d EXCEPT !.tasks = Insert(d.tasks, task.id, task)]

\* delete_task that reports a removal whether or not the task was there
delete_task_always_true(d, task_id) ==
    IF task_id \in DOMAIN d.tasks
    THEN [found |-> TRUE,
          data |-> [d EXCEPT
              !.tasks = Remove(d.tasks, task_id),
              !.user_tasks =
                  IF d.tasks[task_id].assigned_to # <<>>
                     /\ d.tasks[task_id].assigned_to \in DOMAIN d.user_tasks
                  THEN [d.user_tasks EXCEPT ![d.tasks[task_id].assigned_to] =
                            Retain(@, {task_id})]
                  ELSE d.user_tasks]]
    ELSE [found |-> TRUE, data |-> d]

delete_task(d, task_id) ==
    IF task_id \in DOMAIN d.tasks
    THEN [found |-> TRUE,
          data |-> [d EXCEPT
              !.tasks = Remove(d.tasks, task_id),
              !.user_tasks =
                  IF d.tasks[task_id].assigned_to # <<>>
                     /\ d.tasks[task_id].assigned_to \in DOMAIN d.user_tasks
                  THEN [d.user_tasks EXCEPT ![d.tasks[task_id].assigned_to] =
                            Retain(@, {task_id})]
                  ELSE d.user_tasks]]
    ELSE [found |-> FALSE, data |-> d]

count_users(d) == Cardinality(DOMAIN d.users)
count_tasks(d) == Cardinality(DOMAIN d.tasks)
count_user_tasks(d, user_id) ==
    IF user_id \in DOMAIN d.user_tasks THEN Len(d.user_tasks[user_id]) ELSE 0

count_tasks_by_status(d, status) ==
    Cardinality({id \in DOMAIN d.tasks : d.tasks[id].status = status})

-----------------------------------------------------------------------------
(* Pagination: the token decoding and the slicing of storage.rs *)

PagePrefix == <<"p", "a", "g", "e", "_">>
Digits == <<"0", "1", "2", "3", "4", "5", "6", "7", "8", "9">>

IsDigit(c) == \E i \in 1..10 : Digits[i] = c
DigitValue(c) == (CHOOSE i \in 1..10 : Digits[i] = c) - 1

\* str::strip_prefix
strip_prefix(s, prefix) ==
    IF Len(s) >= Len(prefix) /\ SubSeq(s, 1, Len(prefix)) = prefix
    THEN Some(SubSeq(s, Len(prefix) + 1, Len(s)))
    ELSE None

\* Unsigned integers: a number is the sequence of its bytes, least
\* significant first, without leading zero bytes (zero is the empty
\* sequence). A usize has at most usize_bytes bytes and a u32 at most
\* u32_bytes; an operation whose result has more overflows.
usize_bytes == 8
u32_bytes == 4

RECURSIVE Trim(_)
Trim(x) ==
    IF x # <<>> /\ x[Len(x)] = 0 THEN Trim(SubSeq(x, 1, Len(x) - 1)) ELSE x

\* the number n (0 <= n < 2^31)
RECURSIVE Uint(_)
Uint(n) == IF n = 0 THEN <<>> ELSE <<n % 256>> \o Uint(n \div 256)

\* every bit of the w bytes of x flipped
RECURSIVE Complement(_, _)
Complement(x, w) ==
    IF w = 0 THEN <<>>
    ELSE IF x = <<>> THEN <<255>> \o Complement(x, w - 1)
         ELSE <<255 - Head(x)>> \o Complement(Tail(x), w - 1)

\* `n as usize` for an i32 n: the sign is extended, so that -1 is usize::MAX
as_usize(n) ==
    IF n >= 0 THEN Uint(n) ELSE Trim(Complement(Uint(-n - 1), usize_bytes))

\* the value of a number of up to three bytes
RECURSIVE Small(_)
Small(x) == IF x = <<>> THEN 0 ELSE Head(x) + 256 * Small(Tail(x))

\* min(x, n) for a number x and a small n
Clamp(x, n) == IF Len(x) > 3 THEN n ELSE Min(Small(x), n)

\* the bytes of the number whose byte columns sum to `cols`, plus `carry`
RECURSIVE Carried(_, _)
Carried(cols, carry) ==
    IF cols = <<>> THEN <<carry>>
    ELSE LET sum == Head(cols) + carry
         IN  <<sum % 256>> \o Carried(Tail(cols), sum \div 256)

RECURSIVE Scaled(_, _)
Scaled(x, m) == IF x = <<>> THEN <<>> ELSE <<Head(x) * m>> \o Scaled(Tail(x), m)

\* x * m + a for small m and a
MulAdd(x, m, a) == Trim(Carried(Scaled(x, m), a))

\* x + n for a small n
Plus(x, n) == MulAdd(x, 1, n)

RECURSIVE ColSum(_, _, _, _)
ColSum(x, y, k, i) ==
    IF i > Len(x) THEN 0
    ELSE (IF k + 1 - i \in 1..Len(y) THEN x[i] * y[k + 1 - i] ELSE 0)
         + ColSum(x, y, k, i + 1)

RECURSIVE Columns(_, _, _)
Columns(x, y, k) ==
    IF k > Len(x) + Len(y) - 1 THEN <<>>
    ELSE <<ColSum(x, y, k, 1)>> \o Columns(x, y, k + 1)

\* x * y
Mul(x, y) == Trim(Carried(Columns(x, y, 1), 0))

\* The outcomes of an arithmetic operation on integers of w bytes whose
\* exact result is `full`: the result when it fits; when it does not, the
\* panic of a build with overflow checks (None) or the wrapped result of a
\* build without
Checked(full, w) ==
    IF Len(full) <= w THEN {Some(full)}
    ELSE {None, Some(Trim(SubSeq(full, 1, w)))}

\* page_num * page_size as usize
mul_usize(x, y) == Checked(Mul(x, y), usize_bytes)

\* n + a on u32
add_u32(x, a) == Checked(Plus(x, a), u32_bytes)

\* the digits of an integer of w bytes: checked_mul(10) and checked_add of
\* each digit, None when one of them overflows
RECURSIVE DigitsValue(_, _, _)
DigitsValue(s, acc, w) ==
    IF s = <<>> THEN Some(acc)
    ELSE LET next == MulAdd(acc, 10, DigitValue(Head(s)))
         IN  IF Len(next) > w THEN None ELSE DigitsValue(Tail(s), next, w)

\* str::parse of an unsigned integer of w bytes: an optional '+', then one
\* or more decimal digits whose value fits the type; anything else is an
\* error (None)
parse_unsigned(s, w) ==
    LET body == IF s # <<>> /\ Head(s) = "+" THEN Tail(s) ELSE s
    IN  IF body # <<>> /\ \A i \in 1..Len(body) : IsDigit(body[i])
        THEN DigitsValue(body, Uint(0), w)
        ELSE None

\* the remainder by 10 of the number made of the bytes i.. of x
RECURSIVE Rem10(_, _)
Rem10(x, i) == IF i > Len(x) THEN 0 ELSE (Rem10(x, i + 1) * 256 + x[i]) % 10

\* the quotient by 10 of the bytes 1..i of x under the remainder `rem` of
\* the bytes above them
RECURSIVE Quot10(_, _, _)
Quot10(x, i, rem) ==
    IF i = 0 THEN <<>>
    ELSE LET cur == rem * 256 + x[i]
         IN  Quot10(x, i - 1, cur % 10) \o <<cur \div 10>>

\* x / 10
Div10(x) == Trim(Quot10(x, Len(x), 0))

\* Display of an unsigned integer: its decimal digits
RECURSIVE ToDigits(_)
ToDigits(x) ==
    IF Clamp(x, 10) < 10 THEN <<Digits[Clamp(x, 10) + 1]>>
    ELSE ToDigits(Div10(x)) \o <<Digits[Rem10(x, 1) + 1]>>

\* format!("page_{}", n)
format_page(x) == PagePrefix \o ToDigits(x)

\* page_token.strip_prefix("page_").and_then(|s| s.parse().ok()).unwrap_or(0),
\* parsed as a usize
page_num(page_token) ==
    LET rest == strip_prefix(page_token, PagePrefix)
        parsed == IF rest = None THEN None ELSE parse_unsigned(rest[1], usize_bytes)
    IN  IF parsed = None THEN Uint(0) ELSE parsed[1]

\* skip(start).take(page_size as usize) over a sequence
SkipTake(order, start, page_size) ==
    Take(Skip(order, Clamp(start, Len(order))), Clamp(as_usize(page_size), Len(order)))

\* Page with the page number taken as the start offset
Page_stride(order, page_size, page_token) ==
    {Some(SkipTake(order, page_num(page_token), page_size))}

\* `let start = page_num * page_size as usize;` and
\* skip(start).take(page_size as usize) over an iteration order: the page,
\* or None when the multiplication panics
Page(order, page_size, page_token) ==
    {IF start = None THEN None ELSE Some(SkipTake(order, start[1], page_size)) :
        start \in mul_usize(page_num(page_token), as_usize(page_size))}

RECURSIVE MapGet(_, _)
\* filter_map(|id| m.get(id).cloned())
MapGet(ids, m) ==
    IF ids = <<>> THEN <<>>
    ELSE (IF Head(ids) \in DOMAIN m THEN <<m[Head(ids)]>> ELSE <<>>)
         \o MapGet(Tail(ids), m)

\* the entities of the page of keys, or None when there is no page
list_users(d, order, page_size, page_token) ==
    {IF page = None THEN None ELSE Some(MapGet(page[1], d.users)) :
        page \in Page(order, page_size, page_token)}

list_tasks(d, order, page_size, page_token) ==
    {IF page = None THEN None ELSE Some(MapGet(page[1], d.tasks)) :
        page \in Page(order, page_size, page_token)}

\* str::to_lowercase on the letters the titles and queries are written in
to_lowercase(s) ==
    LET lower == [T |-> "t", D |-> "d"]
    IN  [i \in 1..Len(s) |-> IF s[i] \in DOMAIN lower THEN lower[s[i]] ELSE s[i]]

\* str::contains
contains(s, pattern) ==
    \E i \in 0..(Len(s) - Len(pattern)) : SubSeq(s, i + 1, i + Len(pattern)) = pattern

\* search_tasks: the start offset, then the page of the tasks whose title
\* or description contains the query, in the iteration order; None when
\* the multiplication panics
search_tasks(d, order, query, page_size, page_token) ==
    LET query_lower == to_lowercase(query)
        filter(id) ==
            \/ contains(to_lowercase(d.tasks[id].title), query_lower)
            \/ contains(to_lowercase(d.tasks[id].description), query_lower)
    IN  {IF start = None THEN None
         ELSE Some(MapGet(SkipTake(SelectSeq(order, filter), start[1], page_size),
                          d.tasks)) :
            start \in mul_usize(page_num(page_token), as_usize(page_size))}

get_tasks_by_user(d, user_id, page_size, page_token) ==
    {IF page = None THEN None ELSE Some(MapGet(page[1], d.tasks)) :
        page \in Page(IF user_id \in DOMAIN d.user_tasks THEN d.user_tasks[user_id]
                      ELSE <<>>,
                      page_size, page_token)}

\* the next_page_token expression shared by the three list handlers, the
\* token parsed as a u32: the token, or None when the addition panics
next_page_token(batch_len, page_size, page_token) ==
    LET parsed == parse_unsigned(page_token, u32_bytes)
    IN  IF Clamp(as_usize(page_size), batch_len + 1) <= batch_len
        THEN {IF n = None THEN None ELSE Some(format_page(n[1])) :
                 n \in add_u32(IF parsed = None THEN Uint(0) ELSE parsed[1], 1)}
        ELSE {Some(<<>>)}

-----------------------------------------------------------------------------
(* Timestamps: prost_types::Timestamp {seconds: i64, nanos: i32}, and the   *)
(* strings timestamp_serde writes and reads (types/timestamp.rs)           *)

\* the bytes of an i64 and of a u64
u64_bytes == 8

\* the nanoseconds that Duration::new carries into one second
NANOS_PER_SEC == 1000000000

\* 2^32 - 4 * NANOS_PER_SEC: for an i32 n below zero, `n as u32` is
\* 4 * NANOS_PER_SEC + U32_EXCESS + n
U32_EXCESS == 294967296

\* An i64 is kept as the u64 with the same bits (what `seconds as u64`
\* yields), a number of the pagination library. The i64 n, for a small n:
as_u64(n) ==
    IF n >= 0 THEN Uint(n) ELSE Trim(Complement(Uint(-n - 1), u64_bytes))

\* whether the i64 with the bits x is below zero
Negative(x) == Len(x) = u64_bytes /\ x[u64_bytes] >= 128

\* x < y for two numbers of i bytes, compared from byte i down
RECURSIVE LessFrom(_, _, _)
LessFrom(x, y, i) ==
    IF i = 0 THEN FALSE
    ELSE IF x[i] # y[i] THEN x[i] < y[i]
    ELSE LessFrom(x, y, i - 1)

\* x < y on u64
LessU64(x, y) ==
    IF Len(x) # Len(y) THEN Len(x) < Len(y) ELSE LessFrom(x, y, Len(x))

\* x < y on i64
LessI64(x, y) ==
    IF Negative(x) # Negative(y) THEN Negative(x) ELSE LessU64(x, y)

Timestamp(seconds, nanos) == [seconds |-> seconds, nanos |-> nanos]

\* the Timestamp of n whole seconds after (or before) the epoch
Ts(n) == Timestamp(as_u64(n), 0)

\* TaskServiceImpl::system_time_to_timestamp(SystemTime::now()) with the
\* clock at `time`, which advances in whole seconds
system_time_to_timestamp(time) == Timestamp(Uint(time), 0)

\* now_timestamp is SystemTime::now() in seconds
count_overdue_tasks(d, now_timestamp) ==
    Cardinality({id \in DOMAIN d.tasks :
        IF d.tasks[id].due_date # None
        THEN /\ LessI64(d.tasks[id].due_date[1].seconds, Uint(now_timestamp))
             /\ d.tasks[id].status # COMPLETED
        ELSE FALSE})

\* the last second chrono's DateTime<Utc> can hold (8210266876799), and the
\* first second of the year 10000 (253402300800), from which on to_rfc3339
\* writes a year that parse_from_rfc3339 does not read
CHRONO_MAX == <<127, 107, 10, 154, 119, 7>>
YEAR_10000 == <<128, 65, 244, 255, 58>>

\* timestamp_serde::serialize. Duration::new(seconds as u64, nanos as u32)
\* carries whole seconds out of the nanoseconds and panics when that
\* overflows; UNIX_EPOCH.checked_add refuses a Duration beyond i64::MAX
\* seconds ("invalid timestamp"); DateTime::<Utc>::from panics on an instant
\* beyond chrono's range; to_rfc3339 writes the rest. The outcome is
\* <<"Ok", string>>, <<"Err">> or <<"Panic">>.
timestamp_serialize(ts) ==
    LET wrapped == IF ts.nanos >= 0 THEN ts.nanos ELSE U32_EXCESS + ts.nanos
        carry == (wrapped \div NANOS_PER_SEC) + (IF ts.nanos >= 0 THEN 0 ELSE 4)
        subsec == wrapped % NANOS_PER_SEC
        secs == IF carry = 0 THEN ts.seconds ELSE Plus(ts.seconds, carry)
    IN  IF Len(secs) > u64_bytes THEN <<"Panic">>
        ELSE IF Negative(secs) THEN <<"Err">>
        ELSE IF LessU64(CHRONO_MAX, secs) THEN <<"Panic">>
        ELSE <<"Ok", <<IF LessU64(secs, YEAR_10000) THEN "rfc3339" ELSE "signed_year",
                       secs, subsec>> >>

\* whether DateTime::parse_from_rfc3339 accepts the string
IsRfc3339(str) == str[1] = "rfc3339"

\* timestamp_serde::deserialize: the seconds and the nanoseconds of the
\* instant the string names
timestamp_deserialize(str) == Timestamp(str[2], str[3])

\* an Option<SerdeTimestamp> field: how its serialization ends, and what it
\* writes (null or the string) when it ends well
FaultTs(opt) == IF opt = None THEN "Ok" ELSE timestamp_serialize(opt[1])[1]
EncodeTs(opt) == IF opt = None THEN None ELSE Some(timestamp_serialize(opt[1])[2])
DecodeTs(enc) == IF enc = None THEN None ELSE Some(timestamp_deserialize(enc[1]))

\* the timestamp fields of User and of Task, in declaration order
UserStamps == <<"created_at", "updated_at", "last_login">>
TaskStamps == <<"created_at", "updated_at", "due_date">>

\* the lists of a Task whose elements carry a timestamp: the created_at of
\* a TaskComment, the uploaded_at of a TaskAttachment
Nested == [comments |-> "created_at", attachments |-> "uploaded_at"]

\* an entity with its timestamps, those of its lists included, written
EncodeEntity(e, stamps) ==
    [f \in DOMAIN e |->
        IF f \in Range(stamps) THEN EncodeTs(e[f])
        ELSE IF f \in DOMAIN Nested
        THEN [i \in 1..Len(e[f]) |-> [e[f][i] EXCEPT ![Nested[f]] = EncodeTs(@)]]
        ELSE e[f]]

\* and read back
DecodeEntity(e, stamps) ==
    [f \in DOMAIN e |->
        IF f \in Range(stamps) THEN DecodeTs(e[f])
        ELSE IF f \in DOMAIN Nested
        THEN [i \in 1..Len(e[f]) |-> [e[f][i] EXCEPT ![Nested[f]] = DecodeTs(@)]]
        ELSE e[f]]

\* the timestamps of an entity in the order serde goes through them
StampsIn(e, stamps) ==
    [i \in 1..Len(stamps) |-> e[stamps[i]]]
    \o (IF "comments" \in DOMAIN e
        THEN [i \in 1..Len(e.comments) |-> e.comments[i].created_at]
             \o [i \in 1..Len(e.attachments) |-> e.attachments[i].uploaded_at]
        ELSE <<>>)

\* how the serialization of the timestamps ends: at the first that fails
RECURSIVE FirstFault(_)
FirstFault(opts) ==
    IF opts = <<>> THEN "Ok"
    ELSE IF FaultTs(Head(opts)) # "Ok" THEN FaultTs(Head(opts))
    ELSE FirstFault(Tail(opts))

\* How the serialization of a map can end: at the first entity, in the
\* order the map is iterated, with a timestamp that fails; when the order
\* is arbitrary any such entity can be the first.
MapFaults(m, it, stamps) ==
    LET fault(k) == FirstFault(StampsIn(m[k], stamps))
        bad == {k \in DOMAIN m : fault(k) # "Ok"}
    IN  IF bad = {} THEN {"Ok"}
        ELSE IF it.stale THEN {fault(k) : k \in bad}
        ELSE {fault(Head(Retain(it.order, Range(it.order) \ bad)))}

\* How serde_json::to_string_pretty(&StorageData) can end: "Ok", "Err" (a
\* timestamp is refused) or "Panic". The users are written before the
\* tasks, each map in its iteration order.
to_string_pretty(d, it) ==
    LET users == MapFaults(d.users, it.users, UserStamps)
    IN  (users \ {"Ok"})
        \cup (IF "Ok" \in users THEN MapFaults(d.tasks, it.tasks, TaskStamps) ELSE {})

\* the document to_string_pretty returns with Ok: the five keyed
\* collections, in declaration order
Serialize(d) ==
    << <<"users", [u \in DOMAIN d.users |-> EncodeEntity(d.users[u], UserStamps)]>>,
       <<"users_by_email", d.users_by_email>>,
       <<"users_by_username", d.users_by_username>>,
       <<"tasks", [t \in DOMAIN d.tasks |-> EncodeEntity(d.tasks[t], TaskStamps)]>>,
       <<"user_tasks", d.user_tasks>> >>

DocKeys == <<"users", "users_by_email", "users_by_username", "tasks", "user_tasks">>

\* a file whose bytes are not UTF-8: fs::read_to_string fails on it
Binary == <<"binary">>

\* the value of the key of a document that holds it once
Field(content, key) ==
    content[CHOOSE i \in 1..Len(content) : content[i][1] = key][2]

\* whether every timestamp of the entities, those of their lists included,
\* is null or a string that timestamp_serde::deserialize accepts
Dated(entities, stamps) ==
    \A e \in DOMAIN entities :
        \A opt \in Range(StampsIn(entities[e], stamps)) :
            IF opt = None THEN TRUE ELSE IsRfc3339(opt[1])

\* whether serde_json::from_str::<StorageData> accepts the content: an
\* object that holds each of the five fields once, in any order and next to
\* any other key, with timestamps that parse
IsDocument(content) ==
    /\ content # Binary
    /\ \A i \in 1..Len(content) : Len(content[i]) = 2
    /\ \A k \in 1..Len(DocKeys) :
          Cardinality({i \in 1..Len(content) : content[i][1] = DocKeys[k]}) = 1
    /\ Dated(Field(content, "users"), UserStamps)
    /\ Dated(Field(content, "tasks"), TaskStamps)

Deserialize(content) ==
    [users |-> [u \in DOMAIN Field(content, "users") |->
                  DecodeEntity(Field(content, "users")[u], UserStamps)],
     users_by_email |-> Field(content, "users_by_email"),
     users_by_username |-> Field(content, "users_by_username"),
     tasks |-> [t \in DOMAIN Field(content, "tasks") |->
                  DecodeEntity(Field(content, "tasks")[t], TaskStamps)],
     user_tasks |-> Field(content, "user_tasks")]

-----------------------------------------------------------------------------
(* Persistence: the snapshot file *)

\* Storage::with_persistence("data/storage.json", true) in main
auto_save == TRUE

\* the directory of the persistence path, the files at that path, at its
\* ".tmp" sibling and at the backup path (in the same directory), and
\* whether the file system refuses writes
NoDisk == [dir |-> FALSE, primary |-> None, tmp |-> None, backup |-> None,
           ro |-> FALSE]

\* load_from_disk into the store d, run alone: Ok/Err and the store
\* afterwards
load_from_disk(dk, d) ==
    IF dk.primary = None THEN [ok |-> TRUE, data |-> d]
    ELSE IF IsDocument(dk.primary[1])
         THEN [ok |-> TRUE, data |-> Deserialize(dk.primary[1])]
         ELSE [ok |-> FALSE, data |-> d]

\* restore_from into the store d, run alone, up to its assignment
restore_from(dk, d) ==
    IF dk.backup # None /\ IsDocument(dk.backup[1])
    THEN [ok |-> TRUE, data |-> Deserialize(dk.backup[1])]
    ELSE [ok |-> FALSE, data |-> d]

Hole == <<"hole">>

\* write(2) of buf[off+1 .. off+k] at offset off of a file
WriteAt(content, buf, off, k) ==
    [i \in 1..(IF Len(content) > off + k THEN Len(content) ELSE off + k) |->
        IF i > off /\ i <= off + k THEN buf[i]
        ELSE IF i <= Len(content) THEN content[i] ELSE Hole]

\* fs::rename(tmp, path), as seen by the files and by the open handles
RenameHandle(h) ==
    IF h = "tmp" THEN "primary" ELSE IF h = "primary" THEN "orphan" ELSE h

\* what a damaged file can hold: bytes that are not text, nothing, the
\* beginning of a document, or the document with the `created_at` of its
\* tasks, or the `uploaded_at` of an attachment of each, replaced by a
\* string that is no RFC 3339 date
Damaged(content) ==
    LET edited(field, value) ==
            [i \in 1..Len(content) |->
                IF content[i][1] = "tasks"
                THEN <<"tasks",
                       [t \in DOMAIN content[i][2] |->
                           [content[i][2][t] EXCEPT ![field] = value]]>>
                ELSE content[i]]
    IN  {Binary, <<>>, Take(content, 2)}
        \cup (IF IsDocument(content)
              THEN {edited("created_at", Some(<<"text", 0, 0>>)),
                    edited("attachments",
                           <<[id |-> "a", uploaded_at |-> Some(<<"text", 0, 0>>)]>>)}
              ELSE {})

-----------------------------------------------------------------------------
(* Request-handling tasks and the lock. A handler is a tokio task: between *)
(* two of its steps the other tasks, the clock and the file system move.   *)
(* A step is what the task does up to its next await on the lock, on a     *)
(* file-system call or on a channel.                                       *)

Procs == 1..NumProcs

\* the task that serves the requests of the specifications in which the
\* clients send one request at a time
Solo == CHOOSE p \in Procs : \A q \in Procs : p <= q

\* no request is being served
Quiet == \A p \in Procs : pc[p] = "idle"

NoLock == [readers |-> {}, writer |-> 0, waiting |-> <<>>]
Idle == [p \in Procs |-> "idle"]

\* the locals of a handler: the handler (op), its request (req, id, mask),
\* the entity it builds or edits (patch), what is left of its loop (todo),
\* the task it found (before), its response (resp, out), whether its
\* storage call reached auto_save_if_enabled and how that save ended (saved,
\* io), and the locals of save_to_disk (json, the target and the offset of
\* its open file)
NoLocal ==
    [op |-> "none", req |-> <<>>, id |-> <<>>, patch |-> <<>>, mask |-> <<>>,
     todo |-> <<>>, before |-> <<>>, resp |-> "none", out |-> <<>>,
     saved |-> FALSE, io |-> "none", json |-> <<>>, off |-> 0, handle |-> "closed"]
NoLocals == [p \in Procs |-> NoLocal]

\* the page size and the search time search_tasks answers with
SEARCH_PAGE_SIZE == 50
SEARCH_TIME_MS == 50

\* the steps that begin with data.write().await
WriteLabels == {"cu_insert", "ru_put", "du_delete", "ct_store", "pt_lock",
                "rw_put", "dt_delete", "ld_assign", "at_enter"}

\* tokio::sync::RwLock, which is fair: the requests that found the lock
\* taken wait in a queue (l.waiting, the oldest first) and are granted in
\* that order; a request that has not queued is granted only if it would be
\* at once. The task p, at a step that begins with read(), is granted the
\* lock while no writer holds it and no write() is queued ahead of p
read_admits_always(l, p) == TRUE

read_admits(l, p) ==
    /\ l.writer = 0
    /\ \A i \in 1..Len(l.waiting) :
          pc[l.waiting[i]] \in WriteLabels
             => \E j \in 1..(i - 1) : l.waiting[j] = p

\* and p, at a step that begins with write(), while nobody holds the lock
\* and no request is queued ahead of p
write_admits(l, p) ==
    /\ l.writer = 0
    /\ l.readers = {}
    /\ IF l.waiting = <<>> THEN TRUE ELSE Head(l.waiting) = p

-----------------------------------------------------------------------------
(* The event stream of stream_task_events: a bounded channel between the   *)
(* spawned producer task and the response stream the client consumes       *)

\* mpsc::channel(10)
CHANNEL_CAPACITY == 10

\* no stream_task_events request was made yet
NoStream ==
    [state |-> "none", queue |-> <<>>, counter |-> 0, ppc |-> "off",
     event |-> None, received |-> 0, suspended |-> FALSE]

\* the clients that call stream_task_events
Subscribers == {1, 2}

\* the TaskEvent built in round `counter` of the producer's loop
TaskEvent(counter) == [task_id |-> <<"task_", counter>>, user_id |-> "system"]

-----------------------------------------------------------------------------
(* The client-streaming calls: import_tasks with its spawned pipeline and   *)
(* its response channel, upload_task_attachment with its accumulators; and *)
(* a client that pages through list_tasks                                  *)

\* no import_tasks call yet; `taken` is what stream.next() has yielded so
\* far, `ppc` where the pipeline is, `pending` the response it is sending,
\* `queue` the channel, `delivered` what the response stream has yielded to
\* the client
NoImport ==
    [state |-> "none", ppc |-> "off", taken |-> <<>>, pending |-> None,
     queue |-> <<>>, delivered |-> <<>>]

\* the locals of upload_task_attachment before its loop
UploadStart == [task_id |-> <<>>, filename |-> <<>>, content_type |-> <<>>,
                file_data |-> <<>>]

\* no upload_task_attachment call yet; `taken` is what stream.next() has
\* yielded so far and `finalized` counts the runs of the code after the loop
NoUpload == [state |-> "none", acc |-> UploadStart, taken |-> <<>>, finalized |-> 0]

\* a client that has not started to page
NoClient == [state |-> "idle", page_size |-> 0, page_token |-> <<>>,
             got |-> <<>>, requests |-> 0]

NoCalls == [import |-> NoImport, upload |-> NoUpload, client |-> NoClient]

\* the two CreateTaskResponse values the import pipeline builds
Imported(task) == [success |-> TRUE, task |-> Some(task)]
ImportFailed == [success |-> FALSE, task |-> None]

-----------------------------------------------------------------------------
(* The state after construction, and what is around the handlers *)

\* no response: a request is being served, or none was made yet
NoRequest == [op |-> "none", status |-> "none", saved |-> FALSE, io |-> "none",
              req |-> <<>>, out |-> <<>>]

Init ==
    /\ data = StorageData_default
    /\ iter = [users |-> Seen(<<>>), tasks |-> Seen(<<>>)]
    /\ now = 0
    /\ uuid = [users |-> 0, tasks |-> 0]
    /\ disk = NoDisk
    /\ last = NoRequest
    /\ lock = NoLock
    /\ pc = Idle
    /\ loc = NoLocals
    /\ stream = [s \in Subscribers |-> NoStream]
    /\ calls = NoCalls

\* the clock advances
Tick ==
    /\ now < MaxTime
    /\ now' = now + 1
    /\ UNCHANGED <<data, iter, uuid, disk, last, lock, pc, loc, stream, calls>>

\* the file at `path` is rewritten behind the program's back as another
\* JSON writer would leave it: its content kept, the keys in the opposite
\* order, after a key of its own
Reformat(path) ==
    /\ disk[path] # None
    /\ IsDocument(disk[path][1])
    /\ Len(disk[path][1]) = Len(DocKeys)
    /\ LET content == disk[path][1]
           reformatted ==
               <<<<"version", 1>>>>
               \o [i \in 1..Len(content) |-> content[Len(content) + 1 - i]]
       IN  disk' = [disk EXCEPT ![path] = Some(reformatted)]
    /\ UNCHANGED <<data, iter, now, stream, calls, uuid, last, lock, pc, loc>>

\* the file at `path` gets damaged behind the program's back
Damage(path) ==
    /\ disk[path] # None
    /\ \E c \in Damaged(disk[path][1]) :
          /\ c # disk[path][1]
          /\ disk' = [disk EXCEPT ![path] = Some(c)]
    /\ UNCHANGED <<data, iter, now, stream, calls, uuid, last, lock, pc, loc>>

\* the file system starts or stops refusing writes
SetReadOnly(b) ==
    /\ disk.ro # b
    /\ disk' = [disk EXCEPT !.ro = b]
    /\ UNCHANGED <<data, iter, now, stream, calls, uuid, last, lock, pc, loc>>

-----------------------------------------------------------------------------
(* The steps every handler shares *)

\* the task p goes on at `label` with the locals l
Step(p, label, l) ==
    /\ pc' = [pc EXCEPT ![p] = label]
    /\ loc' = [loc EXCEPT ![p] = l]

\* a handler is called: the idle task p takes the request up with the
\* locals l
Begin(p, label, l) ==
    /\ pc[p] = "idle"
    /\ Step(p, label, l)
    /\ last' = NoRequest

\* the result of a store call that returns Result<()>
ResultOf(failed) == IF failed THEN "Err" ELSE "Ok"

\* The storage call of a handler has returned, l being the locals: the
\* import pipeline builds its response and goes on to send it, the loop of
\* bulk_update_tasks counts the task and goes on to the next, force_save
\* and backup_to return what save_to_disk returned, and every other
\* handler returns the response it holds.
Resume(p, l) ==
    IF l.op = "import_tasks"
    THEN /\ Step(p, "idle", NoLocal)
         /\ calls' = [calls EXCEPT !.import.pending = Some(Imported(l.patch)),
                                   !.import.ppc = "send"]
    ELSE IF l.op = "bulk_update_tasks"
    THEN /\ Step(p, IF l.todo = <<>> THEN "ret" ELSE "bu_get",
                 [l EXCEPT !.out.updated_count = @ + 1])
         /\ UNCHANGED calls
    ELSE IF l.op \in {"force_save", "backup_to"}
    THEN /\ Step(p, "ret", [l EXCEPT !.resp = l.io])
         /\ UNCHANGED calls
    ELSE /\ Step(p, "ret", l)
         /\ UNCHANGED calls

\* the write section of a storage call is over and its guard dropped:
\* auto_save_if_enabled
Stored(p, l) ==
    IF auto_save
    THEN /\ Step(p, "sv_lock", [l EXCEPT !.saved = TRUE])
         /\ UNCHANGED calls
    ELSE Resume(p, l)

\* The task panics, l being the locals: its guards are released as it
\* unwinds and the request gets no response; the import pipeline is a
\* spawned task of its own and ends there.
Panicked(p, l) ==
    IF l.op = "import_tasks"
    THEN /\ Step(p, "idle", NoLocal)
         /\ calls' = [calls EXCEPT !.import.ppc = "panicked"]
    ELSE /\ Step(p, "ret", [l EXCEPT !.resp = "Panicked"])
         /\ UNCHANGED calls

\* the handler returns: its response, or the loss of the connection when
\* it has panicked, reaches the client
Respond(p) ==
    /\ pc[p] = "ret"
    /\ last' = [op |-> loc[p].op, status |-> loc[p].resp, saved |-> loc[p].saved,
                io |-> loc[p].io, req |-> loc[p].req, out |-> loc[p].out]
    /\ Step(p, "idle", NoLocal)
    /\ UNCHANGED <<data, iter, now, uuid, disk, lock, stream, calls>>

\* the handlers that begin with an await on the store, and where
Entry ==
    [create_user |-> "cu_check", delete_user |-> "du_delete",
     login |-> "lg_get", authenticate_user |-> "au_get",
     update_user_preferences |-> "pr_get",
     list_users |-> "ls_list", get_user_tasks |-> "ls_list",
     get_task |-> "gt_read", delete_task |-> "dt_delete",
     list_tasks |-> "ls_list", search_tasks |-> "sr_search",
     get_task_analytics |-> "ga_count",
     force_save |-> "sv_lock", backup_to |-> "sv_lock",
     reload |-> "ld_read", restore_from |-> "ld_read"]

\* the counts get_task_analytics awaits, in the order of its awaits
Counts == <<"total_tasks", "completed_tasks", "in_progress_tasks", "todo_tasks",
            "overdue_tasks">>

\* such a handler is called with the request req
Invoke(p, op, req) ==
    /\ Begin(p, Entry[op],
             IF op = "get_task_analytics"
             THEN [NoLocal EXCEPT !.op = op, !.req = req, !.todo = Counts,
                                  !.out = [c \in Range(Counts) |-> 0]]
             ELSE [NoLocal EXCEPT !.op = op, !.req = req])
    /\ UNCHANGED <<data, iter, now, uuid, disk, lock, stream, calls>>

\* the steps that begin with data.read().await
ReadLabels == {"cu_check", "lg_get", "au_get", "pr_get", "gt_read", "bu_get",
               "ls_list", "ls_count", "sr_search", "ga_count", "uf_get",
               "sv_lock"}

\* the task p found the lock taken: its read() or write() joins the queue
LK_Wait(p) ==
    /\ pc[p] \in WriteLabels \cup ReadLabels
    /\ IF pc[p] \in WriteLabels THEN ~ write_admits(lock, p)
                                ELSE ~ read_admits(lock, p)
    /\ p \notin Range(lock.waiting)
    /\ lock' = [lock EXCEPT !.waiting = Append(@, p)]
    /\ UNCHANGED <<data, iter, now, stream, calls, uuid, disk, last, pc, loc>>

\* the lock is granted to p, which leaves the queue if it waited there; the
\* guard is dropped within the step
Granted(p) == lock' = [lock EXCEPT !.waiting = Retain(@, {p})]

-----------------------------------------------------------------------------
(* save_to_disk, as auto_save_if_enabled, force_save and backup_to run it. *)
(* backup_to is the same sequence on the backup path without the rename.   *)

\* the file a save writes: the temporary file, or the backup
Target(op) == IF op = "backup_to" THEN "backup" ELSE "tmp"

\* save_to_disk: take the read guard and serialize. A serialization error
\* is returned at once; a panic of the serialization is the task's.
SV_Lock(p) ==
    /\ pc[p] = "sv_lock"
    /\ read_admits(lock, p)
    /\ \E outcome \in to_string_pretty(data, iter) :
          IF outcome = "Ok"
          THEN /\ lock' = [lock EXCEPT !.readers = @ \cup {p},
                                        !.waiting = Retain(@, {p})]
               /\ Step(p, "sv_mkdir", [loc[p] EXCEPT !.json = Serialize(data)])
               /\ UNCHANGED calls
          ELSE IF outcome = "Err"
          THEN /\ lock' = [lock EXCEPT !.readers = @ \cup {p},
                                        !.waiting = Retain(@, {p})]
               /\ Step(p, "sv_unlock", [loc[p] EXCEPT !.io = "Err"])
               /\ UNCHANGED calls
          ELSE /\ Panicked(p, [loc[p] EXCEPT !.io = "Panic"])
               /\ Granted(p)
    /\ UNCHANGED <<data, iter, now, stream, uuid, disk, last>>

\* fs::create_dir_all(parent)
SV_Mkdir(p) ==
    /\ pc[p] = "sv_mkdir"
    /\ IF disk.dir
       THEN /\ Step(p, "sv_open", loc[p])
            /\ UNCHANGED disk
       ELSE IF disk.ro
       THEN /\ Step(p, "sv_unlock", [loc[p] EXCEPT !.io = "Err"])
            /\ UNCHANGED disk
       ELSE /\ disk' = [disk EXCEPT !.dir = TRUE]
            /\ Step(p, "sv_open", loc[p])
    /\ UNCHANGED <<data, iter, now, stream, calls, uuid, last, lock>>

\* fs::write: create the file or truncate it
SV_Open(p) ==
    /\ pc[p] = "sv_open"
    /\ IF disk.ro
       THEN /\ Step(p, "sv_unlock", [loc[p] EXCEPT !.io = "Err"])
            /\ UNCHANGED disk
       ELSE /\ disk' = [disk EXCEPT ![Target(loc[p].op)] = Some(<<>>)]
            /\ Step(p, "sv_write",
                    [loc[p] EXCEPT !.handle = Target(loc[p].op), !.off = 0])
    /\ UNCHANGED <<data, iter, now, stream, calls, uuid, last, lock>>

\* fs::write: one write(2) of the next k pieces of the document
SV_Write(p, k) ==
    /\ pc[p] = "sv_write"
    /\ k \in 1..(Len(loc[p].json) - loc[p].off)
    /\ disk' = IF loc[p].handle = "orphan" THEN disk
               ELSE [disk EXCEPT ![loc[p].handle] =
                        Some(WriteAt(@[1], loc[p].json, loc[p].off, k))]
    /\ IF loc[p].off + k < Len(loc[p].json)
       THEN Step(p, "sv_write", [loc[p] EXCEPT !.off = @ + k])
       ELSE IF loc[p].op = "backup_to"
       THEN Step(p, "sv_unlock",
                 [loc[p] EXCEPT !.handle = "closed", !.off = 0, !.io = "Ok"])
       ELSE Step(p, "sv_rename", [loc[p] EXCEPT !.handle = "closed", !.off = 0])
    /\ UNCHANGED <<data, iter, now, stream, calls, uuid, last, lock>>

\* fs::rename(temp_path, path)
SV_Rename(p) ==
    /\ pc[p] = "sv_rename"
    /\ pc' = [pc EXCEPT ![p] = "sv_unlock"]
    /\ IF disk.tmp = None \/ disk.ro
       THEN /\ loc' = [loc EXCEPT ![p].io = "Err"]
            /\ UNCHANGED disk
       ELSE /\ disk' = [disk EXCEPT !.primary = disk.tmp, !.tmp = None]
            /\ loc' = [q \in Procs |->
                          [loc[q] EXCEPT !.handle = RenameHandle(@),
                                         !.io = IF q = p THEN "Ok" ELSE @]]
    /\ UNCHANGED <<data, iter, now, stream, calls, uuid, last, lock>>

\* save_to_disk returns: the read guard is dropped, and the caller goes on
SV_Unlock(p) ==
    /\ pc[p] = "sv_unlock"
    /\ lock' = [lock EXCEPT !.readers = @ \ {p}]
    /\ Resume(p, [loc[p] EXCEPT !.json = <<>>])
    /\ UNCHANGED <<data, iter, now, stream, uuid, disk, last>>

\* the whole document in one write(2)
WholeFile == Len(DocKeys)

\* the steps of a save whose file is written by one write(2)
Save(p) ==
    \/ SV_Lock(p)
    \/ SV_Mkdir(p)
    \/ SV_Open(p)
    \/ SV_Write(p, WholeFile)
    \/ SV_Rename(p)
    \/ SV_Unlock(p)

-----------------------------------------------------------------------------
(* load_from_disk, as main and reload run it, and restore_from *)

\* the status of a load: main serves or aborts, the others return
Loaded(op, ok) ==
    IF op = "main" THEN (IF ok THEN "Serving" ELSE "Aborted") ELSE ResultOf(~ok)

\* load_from_disk assigning the default store before it parses the file
LD_Read_clearing(p) ==
    /\ pc[p] = "ld_read"
    /\ LET path == IF loc[p].op = "restore_from" THEN "backup" ELSE "primary"
       IN  IF disk[path] = None
           THEN /\ Step(p, "ret", [loc[p] EXCEPT !.resp = Loaded(loc[p].op, path = "primary")])
                /\ UNCHANGED <<data, iter>>
           ELSE IF IsDocument(disk[path][1])
           THEN /\ Step(p, "ld_assign", [loc[p] EXCEPT !.json = disk[path][1]])
                /\ UNCHANGED <<data, iter>>
           ELSE /\ Step(p, "ret", [loc[p] EXCEPT !.resp = Loaded(loc[p].op, FALSE)])
                /\ data' = StorageData_default
                /\ iter' = [users |-> Seen(<<>>), tasks |-> Seen(<<>>)]
    /\ UNCHANGED <<now, stream, calls, uuid, disk, last, lock>>

\* load_from_disk returns Ok when the path does not exist; it and
\* restore_from read the file and parse it, and return Err when either fails
LD_Read(p) ==
    /\ pc[p] = "ld_read"
    /\ LET path == IF loc[p].op = "restore_from" THEN "backup" ELSE "primary"
       IN  IF disk[path] = None
           THEN Step(p, "ret", [loc[p] EXCEPT !.resp = Loaded(loc[p].op, path = "primary")])
           ELSE IF IsDocument(disk[path][1])
           THEN Step(p, "ld_assign", [loc[p] EXCEPT !.json = disk[path][1]])
           ELSE Step(p, "ret", [loc[p] EXCEPT !.resp = Loaded(loc[p].op, FALSE)])
    /\ UNCHANGED <<data, iter, now, stream, calls, uuid, disk, last, lock>>

\* `*self.data.write().await = storage_data`: the store is replaced by the
\* one that was parsed; restore_from then runs auto_save_if_enabled
LD_Assign(p) ==
    /\ pc[p] = "ld_assign"
    /\ write_admits(lock, p)
    /\ Granted(p)
    /\ data' = Deserialize(loc[p].json)
    /\ iter' = [users |-> Unseen(DOMAIN data'.users),
                tasks |-> Unseen(DOMAIN data'.tasks)]
    /\ LET l == [loc[p] EXCEPT !.json = <<>>, !.resp = Loaded(loc[p].op, TRUE)]
       IN  IF loc[p].op = "restore_from"
           THEN Stored(p, l)
           ELSE Step(p, "ret", l) /\ UNCHANGED calls
    /\ UNCHANGED <<now, stream, uuid, disk, last>>

\* main returned Err from `storage.load_from_disk().await?`: the process
\* has exited and no server was spawned
Aborted == last.op = "main" /\ last.status = "Aborted"

\* The process starts, or is stopped and started again: every task of the
\* old process is gone, main builds a new store and calls load_from_disk,
\* and spawns the servers only once that has returned Ok
Main ==
    /\ data' = StorageData_default
    /\ iter' = [users |-> Seen(<<>>), tasks |-> Seen(<<>>)]
    /\ lock' = NoLock
    /\ pc' = [Idle EXCEPT ![Solo] = "ld_read"]
    /\ loc' = [NoLocals EXCEPT ![Solo] = [NoLocal EXCEPT !.op = "main"]]
    /\ last' = NoRequest
    /\ stream' = [s \in Subscribers |-> NoStream]
    /\ calls' = NoCalls
    /\ UNCHANGED <<now, uuid, disk>>

-----------------------------------------------------------------------------
(* The handlers of user_service.rs *)

\* create_user reads the clock once, for both timestamps
NewUser(id, req, t) ==
    [id |-> id, username |-> req.username, email |-> req.email,
     created_at |-> Some(t), updated_at |-> Some(t), last_login |-> None]

\* create_user, first await: get_user_by_email under the read lock; then
\* the clock, the identifier and the user
CU_Check(p) ==
    /\ pc[p] = "cu_check"
    /\ read_admits(lock, p)
    /\ Granted(p)
    /\ IF get_user_by_email(data, loc[p].req.email) # None
       THEN /\ Step(p, "ret", [loc[p] EXCEPT !.resp = "AlreadyExists"])
            /\ UNCHANGED uuid
       ELSE /\ uuid.users < MaxUsers
            /\ Step(p, "cu_insert",
                    [loc[p] EXCEPT !.patch = NewUser(UserId(uuid.users + 1), loc[p].req,
                                                     system_time_to_timestamp(now))])
            /\ uuid' = [uuid EXCEPT !.users = @ + 1]
    /\ UNCHANGED <<data, iter, now, stream, calls, disk, last>>

\* create_user, second await: Storage::create_user under the write lock
CU_Insert(p) ==
    /\ pc[p] = "cu_insert"
    /\ write_admits(lock, p)
    /\ Granted(p)
    /\ data' = create_user(data, loc[p].patch)
    /\ iter' = [iter EXCEPT !.users = After(@, DOMAIN data'.users, TRUE)]
    /\ Stored(p, [loc[p] EXCEPT !.resp = "Ok", !.out = loc[p].patch])
    /\ UNCHANGED <<now, stream, uuid, disk, last>>

\* update_user is called; body is the Option<User> of the request. The
\* handler reads the clock for updated_at before it calls the store.
UU_Start(p, id, body) ==
    /\ IF body = None
       THEN Begin(p, "ret", [NoLocal EXCEPT !.op = "update_user", !.req = [id |-> id],
                                            !.resp = "InvalidArgument"])
       ELSE LET user == [body[1] EXCEPT !.id = id,
                                        !.updated_at = Some(system_time_to_timestamp(now))]
            IN  Begin(p, "ru_put", [NoLocal EXCEPT !.op = "update_user", !.req = [id |-> id],
                                                   !.patch = user, !.out = user])
    /\ UNCHANGED <<data, iter, now, uuid, disk, lock, stream, calls>>

\* login up to its second await: get_user_by_username under the read lock,
\* then last_login on the local copy
LG_Get(p) ==
    /\ pc[p] = "lg_get"
    /\ read_admits(lock, p)
    /\ Granted(p)
    /\ LET found == get_user_by_username(data, loc[p].req.username)
       IN  IF found = None
           THEN Step(p, "ret", [loc[p] EXCEPT !.resp = "Unauthenticated"])
           ELSE Step(p, "ru_put",
                     [loc[p] EXCEPT !.patch = [found[1] EXCEPT !.last_login =
                                                 Some(system_time_to_timestamp(now))]])
    /\ UNCHANGED <<data, iter, now, stream, calls, uuid, disk, last>>

\* authenticate_user up to its second await: get_user_by_email
AU_Get(p) ==
    /\ pc[p] = "au_get"
    /\ read_admits(lock, p)
    /\ Granted(p)
    /\ LET found == get_user_by_email(data, loc[p].req.email)
       IN  IF found = None
           THEN Step(p, "ret", [loc[p] EXCEPT !.resp = "Ok", !.out = FALSE])
           ELSE Step(p, "ru_put",
                     [loc[p] EXCEPT !.out = TRUE,
                                    !.patch = [found[1] EXCEPT !.last_login =
                                                 Some(system_time_to_timestamp(now))]])
    /\ UNCHANGED <<data, iter, now, stream, calls, uuid, disk, last>>

\* update_user_preferences up to its second await: get_user, then the
\* preferences and updated_at on the local copy
PR_Get(p) ==
    /\ pc[p] = "pr_get"
    /\ read_admits(lock, p)
    /\ Granted(p)
    /\ LET found == get_user(data, loc[p].req.id)
       IN  IF found = None
           THEN Step(p, "ret", [loc[p] EXCEPT !.resp = "NotFound"])
           ELSE Step(p, "ru_put",
                     [loc[p] EXCEPT !.patch = [found[1] EXCEPT !.updated_at =
                                                 Some(system_time_to_timestamp(now))]])
    /\ UNCHANGED <<data, iter, now, stream, calls, uuid, disk, last>>

\* self.storage.update_user(user).await: the user the handler holds
\* replaces whatever the map holds under its id
RU_Put(p) ==
    /\ pc[p] = "ru_put"
    /\ write_admits(lock, p)
    /\ Granted(p)
    /\ data' = update_user(data, loc[p].patch)
    /\ iter' = [iter EXCEPT !.users = After(@, DOMAIN data'.users, TRUE)]
    /\ Stored(p, [loc[p] EXCEPT !.resp = "Ok"])
    /\ UNCHANGED <<now, stream, uuid, disk, last>>

\* delete_user: Storage::delete_user in one critical section, saved only
\* when a user was removed
DU_Delete(p) ==
    /\ pc[p] = "du_delete"
    /\ write_admits(lock, p)
    /\ Granted(p)
    /\ LET r == delete_user(data, loc[p].req.id)
           l == [loc[p] EXCEPT !.resp = "Ok", !.out = r.found]
       IN  /\ data' = r.data
           /\ iter' = [iter EXCEPT !.users = After(@, DOMAIN r.data.users, FALSE)]
           /\ IF r.found THEN Stored(p, l)
              ELSE Step(p, "ret", l) /\ UNCHANGED calls
    /\ UNCHANGED <<now, stream, uuid, disk, last>>

-----------------------------------------------------------------------------
(* The handlers of task_service.rs *)

\* the Task that create_task and the import pipeline build; created_at and
\* updated_at are two readings of the clock
NewTask(id, req, created_at, updated_at) ==
    [id |-> id, title |-> req.title, description |-> req.description,
     status |-> STATUS_TODO, priority |-> req.priority, tags |-> req.tags,
     assigned_to |-> req.assigned_to,
     created_at |-> Some(created_at), updated_at |-> Some(updated_at),
     due_date |-> req.due_date,
     metrics |-> Some([estimated_hours |-> 0, actual_hours |-> 0,
                       completion_percentage |-> 0]),
     comments |-> <<>>, attachments |-> <<>>]

\* Uuid::new_v4() with the identifier derived from the size of the task map
FreshTaskId_bySize == TaskId(count_tasks(data) + 1)

\* Uuid::new_v4().to_string(): an identifier never handed out before
FreshTaskId == TaskId(uuid.tasks + 1)

\* create_task is called: the identifier, and the clock read for created_at
CT_Start(p, req) ==
    /\ Begin(p, "ct_stamp",
             [NoLocal EXCEPT !.op = "create_task", !.req = req, !.id = FreshTaskId,
                             !.before = system_time_to_timestamp(now)])
    /\ uuid' = [uuid EXCEPT !.tasks = @ + 1]
    /\ UNCHANGED <<data, iter, now, stream, calls, disk, lock>>

\* the clock read again, for updated_at: the task is built
CT_Stamp(p) ==
    /\ pc[p] = "ct_stamp"
    /\ Step(p, "ct_store",
            [loc[p] EXCEPT !.before = <<>>,
                           !.patch = NewTask(loc[p].id, loc[p].req, loc[p].before,
                                             system_time_to_timestamp(now))])
    /\ UNCHANGED <<data, iter, now, stream, calls, uuid, disk, last, lock>>

\* create_task calling auto_save_if_enabled inside the block of its write
\* guard
CT_Store_saving_under_guard(p) ==
    /\ pc[p] = "ct_store"
    /\ write_admits(lock, p)
    /\ data' = create_task(data, loc[p].patch)
    /\ iter' = [iter EXCEPT !.tasks = After(@, DOMAIN data'.tasks, TRUE)]
    /\ lock' = [lock EXCEPT !.writer = p, !.waiting = Retain(@, {p})]
    /\ Stored(p, [loc[p] EXCEPT !.resp = "Ok", !.out = loc[p].patch])
    /\ UNCHANGED <<now, stream, uuid, disk, last>>

\* Storage::create_task inserts under the write lock; the handler will
\* return the task it built
CT_Store(p) ==
    /\ pc[p] = "ct_store"
    /\ write_admits(lock, p)
    /\ Granted(p)
    /\ data' = create_task(data, loc[p].patch)
    /\ iter' = [iter EXCEPT !.tasks = After(@, DOMAIN data'.tasks, TRUE)]
    /\ Stored(p, [loc[p] EXCEPT !.resp = "Ok", !.out = loc[p].patch])
    /\ UNCHANGED <<now, stream, uuid, disk, last>>

\* get_task: clone the task under the read lock; the response tells
\* whether there is one
GT_Read(p) ==
    /\ pc[p] = "gt_read"
    /\ read_admits(lock, p)
    /\ Granted(p)
    /\ LET task == get_task(data, loc[p].req.id)
       IN  Step(p, "ret", [loc[p] EXCEPT !.resp = "Ok",
                                         !.out = [task |-> task, found |-> task # None]])
    /\ UNCHANGED <<data, iter, now, stream, calls, uuid, disk, last>>

\* update_task is called; body is the Option<Task> of the request. The
\* patch gets the id of the request and a reading of the clock, and is what
\* the handler will return.
PT_Start(p, id, body, mask) ==
    /\ IF body = None
       THEN Begin(p, "ret", [NoLocal EXCEPT !.op = "update_task",
                                            !.req = [id |-> id, mask |-> mask],
                                            !.resp = "InvalidArgument"])
       ELSE LET patch == [body[1] EXCEPT !.id = id,
                                         !.updated_at = Some(system_time_to_timestamp(now))]
            IN  Begin(p, "pt_lock", [NoLocal EXCEPT !.op = "update_task",
                                                    !.req = [id |-> id, mask |-> mask],
                                                    !.id = id, !.mask = mask, !.todo = mask,
                                                    !.patch = patch, !.out = patch])
    /\ UNCHANGED <<data, iter, now, uuid, disk, lock, stream, calls>>

\* patch_task as an upsert: an absent identifier gets the patch inserted
PT_Lock_upsert(p) ==
    /\ pc[p] = "pt_lock"
    /\ write_admits(lock, p)
    /\ IF loc[p].id \notin DOMAIN data.tasks
       THEN /\ Granted(p)
            /\ data' = update_task(data, loc[p].patch)
            /\ Stored(p, [loc[p] EXCEPT !.resp = "Ok"])
       ELSE /\ lock' = [lock EXCEPT !.writer = p, !.waiting = Retain(@, {p})]
            /\ Step(p, "pt_apply", [loc[p] EXCEPT !.before = data.tasks[loc[p].id]])
            /\ UNCHANGED <<data, calls>>
    /\ UNCHANGED <<iter, now, stream, uuid, disk, last>>

\* patch_task takes the write lock and looks the task up; without it the
\* call returns Err, which the handler turns into NotFound
PT_Lock(p) ==
    /\ pc[p] = "pt_lock"
    /\ write_admits(lock, p)
    /\ IF loc[p].id \notin DOMAIN data.tasks
       THEN /\ Granted(p)
            /\ Step(p, "ret", [loc[p] EXCEPT !.resp = "NotFound"])
       ELSE /\ lock' = [lock EXCEPT !.writer = p, !.waiting = Retain(@, {p})]
            /\ Step(p, "pt_apply", [loc[p] EXCEPT !.before = data.tasks[loc[p].id]])
    /\ UNCHANGED <<data, iter, now, stream, calls, uuid, disk, last>>

\* patch_task: one round of `for field in mask`, or the end of the block
PT_Apply(p) ==
    /\ pc[p] = "pt_apply"
    /\ IF loc[p].todo # <<>>
       THEN /\ data' = [data EXCEPT !.tasks[loc[p].id] =
                            PatchField(@, loc[p].patch, Head(loc[p].todo))]
            /\ loc' = [loc EXCEPT ![p].todo = Tail(@)]
            /\ UNCHANGED <<lock, pc, calls>>
       ELSE /\ lock' = [lock EXCEPT !.writer = 0]
            /\ Stored(p, [loc[p] EXCEPT !.resp = "Ok"])
            /\ UNCHANGED data
    /\ UNCHANGED <<iter, now, stream, uuid, disk, last>>

\* Storage::update_task is called with a whole task, as users of the
\* library can do with any task
ST_UpdateTask(p, task) ==
    /\ Begin(p, "rw_put", [NoLocal EXCEPT !.op = "storage.update_task",
                                          !.req = [id |-> task.id],
                                          !.id = task.id, !.patch = task, !.out = task])
    /\ UNCHANGED <<data, iter, now, uuid, disk, lock, stream, calls>>

\* delete_task: Storage::delete_task in one critical section, saved only
\* when a task was removed
DT_Delete(p) ==
    /\ pc[p] = "dt_delete"
    /\ write_admits(lock, p)
    /\ Granted(p)
    /\ LET r == delete_task(data, loc[p].req.id)
           l == [loc[p] EXCEPT !.resp = "Ok", !.out = r.found]
       IN  /\ data' = r.data
           /\ iter' = [iter EXCEPT !.tasks = After(@, DOMAIN r.data.tasks, FALSE)]
           /\ IF r.found THEN Stored(p, l)
              ELSE Step(p, "ret", l) /\ UNCHANGED calls
    /\ UNCHANGED <<now, stream, uuid, disk, last>>

\* the body of the loop of bulk_update_tasks for a task that exists
BulkEdit(task, req, t) ==
    [task EXCEPT
        !.status = IF req.status # STATUS_UNSPECIFIED THEN req.status ELSE @,
        !.assigned_to = IF req.assigned_to # <<>> THEN req.assigned_to ELSE @,
        !.tags = Retain(@ \o req.tags_to_add, Range(req.tags_to_remove)),
        !.updated_at = Some(t)]

\* bulk_update_tasks is called
BU_Start(p, req) ==
    /\ Begin(p, IF req.task_ids = <<>> THEN "ret" ELSE "bu_get",
             [NoLocal EXCEPT !.op = "bulk_update_tasks", !.req = req,
                             !.todo = req.task_ids, !.resp = "Ok",
                             !.out = [updated_count |-> 0, failed_ids |-> <<>>]])
    /\ UNCHANGED <<data, iter, now, uuid, disk, lock, stream, calls>>

\* bulk_update_tasks, one round of its loop up to its second await:
\* get_task under the read lock, then the edit of the local copy, with a
\* reading of the clock of its own
BU_Get(p) ==
    /\ pc[p] = "bu_get"
    /\ read_admits(lock, p)
    /\ Granted(p)
    /\ LET id == Head(loc[p].todo)
           found == get_task(data, id)
       IN  IF found = None
           THEN Step(p, IF Tail(loc[p].todo) = <<>> THEN "ret" ELSE "bu_get",
                     [loc[p] EXCEPT !.todo = Tail(@),
                                    !.out.failed_ids = Append(@, id)])
           ELSE Step(p, "rw_put",
                     [loc[p] EXCEPT !.todo = Tail(@), !.id = id, !.before = found,
                                    !.patch = BulkEdit(found[1], loc[p].req,
                                                       system_time_to_timestamp(now))])
    /\ UNCHANGED <<data, iter, now, stream, calls, uuid, disk, last>>

\* self.storage.update_task(task).await: the local copy replaces whatever
\* the map holds under its id
RW_Put(p) ==
    /\ pc[p] = "rw_put"
    /\ write_admits(lock, p)
    /\ Granted(p)
    /\ data' = update_task(data, loc[p].patch)
    /\ iter' = [iter EXCEPT !.tasks = After(@, DOMAIN data'.tasks, TRUE)]
    /\ Stored(p, [loc[p] EXCEPT !.resp = "Ok"])
    /\ UNCHANGED <<now, stream, uuid, disk, last>>

\* the storage call of a list handler, and the number its response counts
ListCall(op, d, order, req) ==
    IF op = "list_users" THEN list_users(d, order, req.page_size, req.page_token)
    ELSE IF op = "list_tasks" THEN list_tasks(d, order, req.page_size, req.page_token)
    ELSE get_tasks_by_user(d, req.user_id, req.page_size, req.page_token)

ListCount(op, d, req) ==
    IF op = "list_users" THEN count_users(d)
    ELSE IF op = "list_tasks" THEN count_tasks(d)
    ELSE count_user_tasks(d, req.user_id)

\* the orders in which the storage call of a list handler may go through
\* its map; get_tasks_by_user goes through a Vec
ListOrders(op) ==
    IF op = "list_users" THEN NextOrders(iter.users, DOMAIN data.users)
    ELSE IF op = "list_tasks" THEN NextOrders(iter.tasks, DOMAIN data.tasks)
    ELSE {<<>>}

\* list_tasks, list_users, get_user_tasks: the storage call under the read
\* lock, then the next_page_token expression. A panic in either (the
\* multiplication before the iteration, the addition) is the task's.
LS_List(p) ==
    /\ pc[p] = "ls_list"
    /\ read_admits(lock, p)
    /\ Granted(p)
    /\ \E o \in ListOrders(loc[p].op) :
       \E batch \in ListCall(loc[p].op, data, o, loc[p].req) :
          IF batch = None
          THEN /\ Step(p, "ret", [loc[p] EXCEPT !.resp = "Panicked"])
               /\ UNCHANGED iter
          ELSE /\ iter' = IF loc[p].op = "list_users" THEN [iter EXCEPT !.users = Seen(o)]
                          ELSE IF loc[p].op = "list_tasks" THEN [iter EXCEPT !.tasks = Seen(o)]
                          ELSE iter
               /\ \E token \in next_page_token(Len(batch[1]), loc[p].req.page_size,
                                               loc[p].req.page_token) :
                     IF token = None
                     THEN Step(p, "ret", [loc[p] EXCEPT !.resp = "Panicked"])
                     ELSE Step(p, "ls_count",
                               [loc[p] EXCEPT !.out = [items |-> batch[1],
                                                       next_page_token |-> token[1],
                                                       total_count |-> 0]])
    /\ UNCHANGED <<data, now, stream, calls, uuid, disk, last>>

\* search_tasks: the handler asks the store for the first 50 matches and
\* reports how many it got
SR_Search(p) ==
    /\ pc[p] = "sr_search"
    /\ read_admits(lock, p)
    /\ Granted(p)
    /\ \E o \in NextOrders(iter.tasks, DOMAIN data.tasks) :
       \E tasks \in search_tasks(data, o, loc[p].req.query, SEARCH_PAGE_SIZE, <<>>) :
          IF tasks = None
          THEN /\ Step(p, "ret", [loc[p] EXCEPT !.resp = "Panicked"])
               /\ UNCHANGED iter
          ELSE /\ iter' = [iter EXCEPT !.tasks = Seen(o)]
               /\ Step(p, "ret",
                       [loc[p] EXCEPT !.resp = "Ok",
                                      !.out = [tasks |-> tasks[1],
                                               total_count |-> Len(tasks[1]),
                                               search_time_ms |-> SEARCH_TIME_MS]])
    /\ UNCHANGED <<data, now, stream, calls, uuid, disk, last>>

\* the count of a list handler, under the read lock again
LS_Count(p) ==
    /\ pc[p] = "ls_count"
    /\ read_admits(lock, p)
    /\ Granted(p)
    /\ Step(p, "ret", [loc[p] EXCEPT !.resp = "Ok",
                                     !.out.total_count = ListCount(loc[p].op, data, loc[p].req)])
    /\ UNCHANGED <<data, iter, now, stream, calls, uuid, disk, last>>

\* one of the five counts of get_task_analytics, each under the read lock;
\* count_overdue_tasks reads the clock under it
Count(name, d, t) ==
    IF name = "total_tasks" THEN count_tasks(d)
    ELSE IF name = "completed_tasks" THEN count_tasks_by_status(d, STATUS_DONE)
    ELSE IF name = "in_progress_tasks" THEN count_tasks_by_status(d, STATUS_IN_PROGRESS)
    ELSE IF name = "todo_tasks" THEN count_tasks_by_status(d, STATUS_TODO)
    ELSE count_overdue_tasks(d, t)

GA_Count(p) ==
    /\ pc[p] = "ga_count"
    /\ read_admits(lock, p)
    /\ Granted(p)
    /\ Step(p, IF Tail(loc[p].todo) = <<>> THEN "ga_stamp" ELSE "ga_count",
            [loc[p] EXCEPT !.todo = Tail(@),
                           !.out[Head(loc[p].todo)] = Count(Head(loc[p].todo), data, now)])
    /\ UNCHANGED <<data, iter, now, stream, calls, uuid, disk, last>>

\* get_task_analytics builds its response: completion_rate is the quotient
\* of the pair it holds, generated_at another reading of the clock; the
\* simulated figures are left out
GA_Stamp(p) ==
    /\ pc[p] = "ga_stamp"
    /\ LET out == loc[p].out
       IN  Step(p, "ret",
                [loc[p] EXCEPT !.resp = "Ok",
                    !.out = [total_tasks |-> out.total_tasks,
                             completed_tasks |-> out.completed_tasks,
                             in_progress_tasks |-> out.in_progress_tasks,
                             todo_tasks |-> out.todo_tasks,
                             completion_rate |-> IF out.total_tasks > 0
                                                 THEN <<out.completed_tasks * 100,
                                                        out.total_tasks>>
                                                 ELSE <<0, 1>>,
                             overdue_tasks |-> out.overdue_tasks,
                             generated_at |-> Some(system_time_to_timestamp(now))]])
    /\ UNCHANGED <<data, iter, now, stream, calls, uuid, disk, last, lock>>

-----------------------------------------------------------------------------
(* upload_task_attachment: the loop over the inbound chunks, then the code *)
(* after the loop                                                          *)

\* the Ok arm of the loop of upload_task_attachment: one chunk is folded
\* into the locals task_id, filename, content_type and file_data
UploadStep(acc, c) ==
    [task_id |-> IF c.task_id # <<>> /\ acc.task_id = <<>>
                 THEN c.task_id ELSE acc.task_id,
     filename |-> IF c.filename # <<>> THEN c.filename ELSE acc.filename,
     content_type |-> IF c.content_type # <<>>
                      THEN c.content_type ELSE acc.content_type,
     file_data |-> acc.file_data \o c.chunk]

\* upload_task_attachment is called: the locals are initialised
UP_Start ==
    /\ calls.upload.state = "none"
    /\ calls' = [calls EXCEPT !.upload = [NoUpload EXCEPT !.state = "open"]]
    /\ last' = NoRequest
    /\ UNCHANGED <<data, iter, now, uuid, disk, lock, pc, loc, stream>>

\* the loop storing the task's new updated_at at every chunk
UP_Chunk_committing(c) ==
    /\ calls.upload.state = "open"
    /\ LET acc == UploadStep(calls.upload.acc, c)
           found == get_task(data, acc.task_id)
       IN  /\ calls' = [calls EXCEPT !.upload.acc = acc,
                                     !.upload.taken = Append(@, c)]
           /\ data' = IF found = None THEN data
                      ELSE update_task(data, [found[1] EXCEPT !.updated_at =
                                                 Some(system_time_to_timestamp(now))])
           /\ iter' = [iter EXCEPT !.tasks = After(@, DOMAIN data'.tasks, found # None)]
    /\ UNCHANGED <<now, uuid, disk, last, lock, pc, loc, stream>>

\* stream.next() yields a chunk: it is folded into the locals
UP_Chunk(c) ==
    /\ calls.upload.state = "open"
    /\ calls' = [calls EXCEPT !.upload.acc = UploadStep(@, c),
                              !.upload.taken = Append(@, c)]
    /\ UNCHANGED <<data, iter, now, uuid, disk, last, lock, pc, loc, stream>>

\* stream.next() yields an error: the handler returns Status::internal
UP_Error ==
    /\ calls.upload.state = "open"
    /\ calls' = [calls EXCEPT !.upload.state = "failed"]
    /\ last' = [NoRequest EXCEPT !.op = "upload_task_attachment", !.status = "Internal",
                                 !.req = calls.upload.taken]
    /\ UNCHANGED <<data, iter, now, uuid, disk, lock, pc, loc, stream>>

\* stream.next() yields None: the code after the loop begins, on the task p
UP_End(p) ==
    /\ calls.upload.state = "open"
    /\ calls' = [calls EXCEPT !.upload.state = "done", !.upload.finalized = @ + 1]
    /\ Begin(p, "uf_get",
             [NoLocal EXCEPT !.op = "upload_task_attachment",
                             !.req = calls.upload.taken,
                             !.id = calls.upload.acc.task_id,
                             !.resp = "Ok",
                             !.out = [filename |-> calls.upload.acc.filename,
                                      file_size |-> Len(calls.upload.acc.file_data)]])
    /\ UNCHANGED <<data, iter, now, uuid, disk, lock, stream>>

\* upload_task_attachment after its loop: get_task under the read lock,
\* then a reading of the clock for updated_at on the local copy
UF_Get(p) ==
    /\ pc[p] = "uf_get"
    /\ read_admits(lock, p)
    /\ Granted(p)
    /\ LET found == get_task(data, loc[p].id)
       IN  IF found = None
           THEN Step(p, "ret", loc[p])
           ELSE Step(p, "rw_put",
                     [loc[p] EXCEPT !.before = found,
                                    !.patch = [found[1] EXCEPT !.updated_at =
                                                 Some(system_time_to_timestamp(now))]])
    /\ UNCHANGED <<data, iter, now, stream, calls, uuid, disk, last>>

-----------------------------------------------------------------------------
(* import_tasks: the spawned pipeline, run by the task p, and the consumer *)
(* of its response stream                                                  *)

\* import_tasks: create the channel, spawn the pipeline, return the
\* receiving end as the response stream
IM_Start ==
    /\ calls.import.state = "none"
    /\ calls' = [calls EXCEPT !.import = [NoImport EXCEPT !.state = "open", !.ppc = "next"]]
    /\ UNCHANGED <<data, iter, now, uuid, disk, last, lock, pc, loc, stream>>

\* the pipeline: stream.next() yields an element. An error is turned into
\* a failure response, to be sent next; for a request the pipeline draws
\* the identifier and reads the clock for created_at, and goes on as
\* create_task does: the clock again, Storage::create_task, and then the
\* response is to be sent
IM_Next(p, elem) ==
    /\ calls.import.ppc = "next"
    /\ IF elem.err
       THEN /\ calls' = [calls EXCEPT !.import.taken = Append(@, elem),
                                      !.import.pending = Some(ImportFailed),
                                      !.import.ppc = "send"]
            /\ UNCHANGED <<uuid, pc, loc>>
       ELSE /\ pc[p] = "idle"
            /\ Step(p, "ct_stamp",
                    [NoLocal EXCEPT !.op = "import_tasks", !.req = elem.req,
                                    !.id = FreshTaskId,
                                    !.before = system_time_to_timestamp(now)])
            /\ uuid' = [uuid EXCEPT !.tasks = @ + 1]
            /\ calls' = [calls EXCEPT !.import.taken = Append(@, elem),
                                      !.import.ppc = "store"]
    /\ UNCHANGED <<data, iter, now, disk, last, lock, stream>>

\* the pipeline: stream.next() yields None, the loop and the task end
IM_End ==
    /\ calls.import.ppc = "next"
    /\ calls' = [calls EXCEPT !.import.ppc = "ended"]
    /\ UNCHANGED <<data, iter, now, uuid, disk, last, lock, pc, loc, stream>>

\* tx.send on a channel that never fills
IM_Send_unbounded ==
    /\ calls.import.ppc = "send"
    /\ IF calls.import.state = "closed"
       THEN calls' = [calls EXCEPT !.import.ppc = "done", !.import.pending = None]
       ELSE calls' = [calls EXCEPT !.import.queue = Append(@, calls.import.pending[1]),
                                   !.import.pending = None,
                                   !.import.ppc = "next"]
    /\ UNCHANGED <<data, iter, now, uuid, disk, last, lock, pc, loc, stream>>

\* the pipeline: tx.send(Ok(response)).await completes, with Err once the
\* receiver is gone (break) and with Ok once the channel has room
IM_Send ==
    /\ calls.import.ppc = "send"
    /\ IF calls.import.state = "closed"
       THEN calls' = [calls EXCEPT !.import.ppc = "done", !.import.pending = None]
       ELSE /\ Len(calls.import.queue) < CHANNEL_CAPACITY
            /\ calls' = [calls EXCEPT !.import.queue = Append(@, calls.import.pending[1]),
                                      !.import.pending = None,
                                      !.import.ppc = "next"]
    /\ UNCHANGED <<data, iter, now, uuid, disk, last, lock, pc, loc, stream>>

\* the consumer: the response stream yields the next response
IM_Recv ==
    /\ calls.import.state = "open"
    /\ calls.import.queue # <<>>
    /\ calls' = [calls EXCEPT !.import.queue = Tail(@),
                              !.import.delivered = Append(@, Head(calls.import.queue))]
    /\ UNCHANGED <<data, iter, now, uuid, disk, last, lock, pc, loc, stream>>

\* the consumer disconnects: the receiver is dropped with what it holds
IM_Disconnect ==
    /\ calls.import.state = "open"
    /\ calls' = [calls EXCEPT !.import.state = "closed", !.import.queue = <<>>]
    /\ UNCHANGED <<data, iter, now, uuid, disk, last, lock, pc, loc, stream>>

-----------------------------------------------------------------------------
(* A client that pages through list_tasks, following the tokens it is given *)

PageReq(user_id, page_size, page_token) ==
    [user_id |-> user_id, page_token |-> page_token, page_size |-> page_size]

\* the client decides to list the tasks in pages of page_size
CL_Begin(page_size) ==
    /\ calls.client.state = "idle"
    /\ calls' = [calls EXCEPT !.client = [NoClient EXCEPT !.state = "paging",
                                                          !.page_size = page_size]]
    /\ UNCHANGED <<data, iter, now, uuid, disk, last, lock, pc, loc, stream>>

\* the client sends the token it holds to list_tasks
CL_Request(p) ==
    /\ calls.client.state = "paging"
    /\ Begin(p, "ls_list",
             [NoLocal EXCEPT !.op = "list_tasks",
                             !.req = PageReq(<<>>, calls.client.page_size,
                                             calls.client.page_token)])
    /\ calls' = [calls EXCEPT !.client.state = "waiting", !.client.requests = @ + 1]
    /\ UNCHANGED <<data, iter, now, uuid, disk, lock, stream>>

\* the client gets the response: it keeps the batch and the next token,
\* and stops when that token is empty or when the request failed
CL_Take ==
    /\ calls.client.state = "waiting"
    /\ last.op = "list_tasks"
    /\ calls' = IF last.status = "Ok"
                THEN [calls EXCEPT
                        !.client.got = @ \o [i \in 1..Len(last.out.items) |->
                                               last.out.items[i].id],
                        !.client.page_token = last.out.next_page_token,
                        !.client.state = IF last.out.next_page_token = <<>>
                                         THEN "done" ELSE "paging"]
                ELSE [calls EXCEPT !.client.state = "failed"]
    /\ UNCHANGED <<data, iter, now, uuid, disk, last, lock, pc, loc, stream>>

-----------------------------------------------------------------------------
(* The requests of the specifications *)

\* identifiers a client can name: those already issued, and one never issued
IssuedUserIds == {UserId(n) : n \in 1..uuid.users}
IssuedTaskIds == {TaskId(n) : n \in 1..uuid.tasks}
UserIdArgs == IssuedUserIds \cup {GhostId}
TaskIdArgs == IssuedTaskIds \cup {GhostId}
AssigneeArgs == IssuedUserIds \cup {<<>>}

\* no task but Solo and p is serving a request: in the concurrent
\* specifications a request served by Solo runs next to one other request
InPair(p) == \A q \in Procs \ {Solo, p} : pc[q] = "idle"

CreateUserReq(username, email) == [email |-> email, username |-> username]

IdReq(id) == [id |-> id]

UserBody(username, email) ==
    [id |-> <<>>, email |-> email, username |-> username,
     created_at |-> None, updated_at |-> None, last_login |-> None]

TaskBody(status, assigned_to) ==
    [id |-> <<>>, assigned_to |-> assigned_to, title |-> <<"T", "1">>, description |-> <<"d", "1">>,
     status |-> status, priority |-> 3, tags |-> <<"x">>,
     due_date |-> Some(Ts(0)), metrics |-> None,
     comments |-> <<[id |-> "c", created_at |-> None]>>,
     attachments |-> <<[id |-> "a", uploaded_at |-> None]>>,
     created_at |-> None, updated_at |-> None]

\* a task body whose attachment was uploaded at ts
Attached(ts) ==
    [TaskBody(STATUS_TODO, <<>>) EXCEPT
        !.attachments = <<[id |-> "a", uploaded_at |-> Some(ts)]>>]

CreateTaskReq(assigned_to, due_date) ==
    [assigned_to |-> assigned_to, title |-> <<"t", "0">>, description |-> <<"d", "0">>, priority |-> 1,
     tags |-> <<>>, due_date |-> due_date]

BulkReq(task_ids, status, assigned_to) ==
    [assigned_to |-> assigned_to, status |-> status, tags_to_add |-> <<>>,
     tags_to_remove |-> <<>>, task_ids |-> task_ids]

ChunkOf(task_id, filename, content_type) ==
    [task_id |-> task_id, filename |-> filename, content_type |-> content_type,
     chunk |-> <<1>>, err |-> FALSE]

\* the first second chrono cannot hold
BeyondChrono == Timestamp(Plus(CHRONO_MAX, 1), 0)

\* the elements stream.next() of an import can yield: a decoded request,
\* without a due date or with one beyond chrono's range, or an error
InboundOk == [req |-> CreateTaskReq(<<>>, None), err |-> FALSE]
InboundLate == [req |-> CreateTaskReq(<<>>, Some(BeyondChrono)), err |-> FALSE]
InboundErr == [req |-> <<>>, err |-> TRUE]

-----------------------------------------------------------------------------
(* Spec: the store and its indexes under every mutating handler, the       *)
(* requests served one at a time                                           *)

Next ==
    \/ \E e \in Emails : Invoke(Solo, "create_user", CreateUserReq("n1", e))
    \/ CU_Check(Solo)
    \/ CU_Insert(Solo)
    \/ \E id \in IssuedUserIds : Invoke(Solo, "delete_user", IdReq(id))
    \/ DU_Delete(Solo)
    \/ \E a \in AssigneeArgs :
          uuid.tasks < MaxTasks /\ CT_Start(Solo, CreateTaskReq(a, None))
    \/ CT_Stamp(Solo)
    \/ CT_Store(Solo)
    \/ \E id \in TaskIdArgs, a \in AssigneeArgs :
          PT_Start(Solo, id, Some(TaskBody(STATUS_DONE, a)), <<"assignedTo">>)
    \/ PT_Lock(Solo)
    \/ PT_Apply(Solo)
    \/ \E id \in IssuedTaskIds : Invoke(Solo, "delete_task", IdReq(id))
    \/ DT_Delete(Solo)
    \/ \E id \in IssuedTaskIds, a \in AssigneeArgs :
          BU_Start(Solo, BulkReq(<<id>>, STATUS_UNSPECIFIED, a))
    \/ BU_Get(Solo)
    \/ RW_Put(Solo)
    \/ Save(Solo)
    \/ Respond(Solo)

Spec == Init /\ [][Next]_vars

-----------------------------------------------------------------------------
(* SpecUsers: the user map and its two secondary indexes *)

NextUsers ==
    \/ \E u \in Usernames, e \in Emails : Invoke(Solo, "create_user", CreateUserReq(u, e))
    \/ CU_Check(Solo)
    \/ CU_Insert(Solo)
    \/ \E id \in IssuedUserIds, u \in Usernames, e \in Emails :
          UU_Start(Solo, id, Some(UserBody(u, e)))
    \/ RU_Put(Solo)
    \/ \E id \in IssuedUserIds : Invoke(Solo, "delete_user", IdReq(id))
    \/ DU_Delete(Solo)
    \/ Save(Solo)
    \/ Respond(Solo)

SpecUsers == Init /\ [][NextUsers]_vars

-----------------------------------------------------------------------------
(* SpecPatch: masked patches of tasks *)

OtherFields == <<"description", "priority", "tags", "assignedTo",
                 "due_date", "metrics", "comments", "attachments">>

PatchMasks ==
    {<<>>, <<"status">>, <<"bogus", "title">> \o OtherFields,
     <<"assigned_to", "updated_at">>}

NextPatch ==
    \/ Invoke(Solo, "create_user", CreateUserReq("n1", "e1"))
    \/ CU_Check(Solo)
    \/ CU_Insert(Solo)
    \/ uuid.tasks < MaxPatchTasks /\ CT_Start(Solo, CreateTaskReq(<<>>, None))
    \/ CT_Stamp(Solo)
    \/ CT_Store(Solo)
    \/ \E id \in TaskIdArgs, m \in PatchMasks :
          PT_Start(Solo, id, Some(TaskBody(STATUS_DONE, GhostId)), m)
    \/ \E id \in TaskIdArgs : PT_Start(Solo, id, None, <<"status">>)
    \/ PT_Lock(Solo)
    \/ PT_Apply(Solo)
    \/ Save(Solo)
    \/ Respond(Solo)

SpecPatch == Init /\ [][NextPatch]_vars

-----------------------------------------------------------------------------
(* SpecStamp: patches of a task while the clock runs *)

NextStamp ==
    \/ Tick
    \/ uuid.tasks < MaxTasks /\ CT_Start(Solo, CreateTaskReq(<<>>, None))
    \/ CT_Stamp(Solo)
    \/ CT_Store(Solo)
    \/ \E id \in TaskIdArgs, m \in PatchMasks :
          PT_Start(Solo, id, Some(TaskBody(STATUS_DONE, GhostId)), m)
    \/ PT_Lock(Solo)
    \/ PT_Apply(Solo)
    \/ Save(Solo)
    \/ Respond(Solo)

SpecStamp == Init /\ [][NextStamp]_vars

-----------------------------------------------------------------------------
(* SpecEvents: one event stream, its producer and its consumer *)
StoreVars == <<data, iter, now, uuid, disk, last, lock, pc, loc, calls>>

\* stream_task_events: create the channel, spawn the producer, return the
\* receiving end as the response stream
SE_Start(s) ==
    /\ stream[s].state = "none"
    /\ stream' = [stream EXCEPT ![s] = [NoStream EXCEPT !.state = "open", !.ppc = "tick"]]
    /\ UNCHANGED StoreVars

\* the loop with one counter shared by the producers of all streams
SE_Tick_shared(s) ==
    /\ stream[s].ppc = "tick"
    /\ stream[s].state = "closed" \/ stream[s].counter < MaxEvents
    /\ LET counter == 1 + CHOOSE m \in {stream[t].counter : t \in Subscribers} :
                              \A t \in Subscribers : stream[t].counter <= m
       IN  stream' = [stream EXCEPT ![s] =
                         [@ EXCEPT !.counter = counter,
                                   !.event = Some(TaskEvent(counter)),
                                   !.ppc = "send"]]
    /\ UNCHANGED StoreVars

\* the producer: interval.tick() completes, the counter advances and the
\* event is built (the model stops a producer at MaxEvents events while its
\* consumer is connected)
SE_Tick(s) ==
    /\ stream[s].ppc = "tick"
    /\ stream[s].state = "closed" \/ stream[s].counter < MaxEvents
    /\ stream' = [stream EXCEPT ![s] =
                      [@ EXCEPT !.counter = @ + 1,
                                !.event = Some(TaskEvent(stream[s].counter + 1)),
                                !.ppc = "send"]]
    /\ UNCHANGED StoreVars

\* tx.send that throws the event away when the channel is full
SE_Send_dropping(s) ==
    /\ stream[s].ppc = "send"
    /\ IF stream[s].state = "closed"
       THEN stream' = [stream EXCEPT ![s] = [@ EXCEPT !.ppc = "done", !.event = None]]
       ELSE IF Len(stream[s].queue) < CHANNEL_CAPACITY
       THEN stream' = [stream EXCEPT ![s] =
                          [@ EXCEPT !.queue = Append(@, stream[s].event[1]),
                                    !.event = None, !.ppc = "tick"]]
       ELSE stream' = [stream EXCEPT ![s] = [@ EXCEPT !.event = None, !.ppc = "tick"]]
    /\ UNCHANGED StoreVars

\* tx.send that gives up as soon as the channel is full
SE_Send_quitting(s) ==
    /\ stream[s].ppc = "send"
    /\ IF stream[s].state = "closed" \/ Len(stream[s].queue) >= CHANNEL_CAPACITY
       THEN stream' = [stream EXCEPT ![s] = [@ EXCEPT !.ppc = "done", !.event = None]]
       ELSE stream' = [stream EXCEPT ![s] =
                          [@ EXCEPT !.queue = Append(@, stream[s].event[1]),
                                    !.event = None, !.ppc = "tick"]]
    /\ UNCHANGED StoreVars

\* the producer: tx.send(Ok(event)).await completes, with Err once the
\* receiver is gone (the loop breaks) and with Ok once the channel has
\* room; until then the producer stays suspended in it
SE_Send(s) ==
    /\ stream[s].ppc = "send"
    /\ IF stream[s].state = "closed"
       THEN stream' = [stream EXCEPT ![s] = [@ EXCEPT !.ppc = "done", !.event = None]]
       ELSE /\ Len(stream[s].queue) < CHANNEL_CAPACITY
            /\ stream' = [stream EXCEPT ![s] =
                              [@ EXCEPT !.queue = Append(@, stream[s].event[1]),
                                        !.event = None, !.ppc = "tick"]]
    /\ UNCHANGED StoreVars

\* the consumer: the response stream yields the next event
SE_Recv(s) ==
    /\ stream[s].state = "open"
    /\ stream[s].queue # <<>>
    /\ stream' = [stream EXCEPT ![s] =
                      [@ EXCEPT !.queue = Tail(@),
                                !.received = Head(stream[s].queue).task_id[2]]]
    /\ UNCHANGED StoreVars

\* the consumer disconnects: the receiver is dropped with what it holds;
\* `suspended` keeps whether the producer was then waiting in send for room
SE_Disconnect(s) ==
    /\ stream[s].state = "open"
    /\ stream' = [stream EXCEPT ![s] =
                      [@ EXCEPT !.state = "closed", !.queue = <<>>,
                                !.suspended = /\ stream[s].ppc = "send"
                                              /\ Len(stream[s].queue) = CHANNEL_CAPACITY]]
    /\ UNCHANGED StoreVars

\* the subscriber of the specifications with one stream
Sub1 == CHOOSE s \in Subscribers : \A t \in Subscribers : s <= t

NextEvents ==
    \/ SE_Start(Sub1)
    \/ SE_Tick(Sub1)
    \/ SE_Send(Sub1)
    \/ SE_Recv(Sub1)
    \/ SE_Disconnect(Sub1)

SpecEvents == Init /\ [][NextEvents]_vars

\* the runtime keeps polling the spawned producer: its interval fires and
\* its send completes whenever it can
SpecEventsFair ==
    SpecEvents /\ WF_vars(SE_Tick(Sub1)) /\ WF_vars(SE_Send(Sub1))

-----------------------------------------------------------------------------
(* SpecSubs: several event streams at once *)

NextSubs ==
    \E s \in Subscribers :
        \/ SE_Start(s)
        \/ SE_Tick(s)
        \/ SE_Send(s)
        \/ SE_Recv(s)
        \/ SE_Disconnect(s)

SpecSubs == Init /\ [][NextSubs]_vars

-----------------------------------------------------------------------------
(* SpecRoundTrip: saving the store and loading it back; the timestamps of  *)
(* the requests are those a client can send                                *)

\* due dates: none, the epoch, one second and one nanosecond before it,
\* the first second of the year 10000, and a second beyond chrono's range
DueDates ==
    {None, Some(Ts(0)), Some(Ts(-1)), Some(Timestamp(Uint(0), -1)),
     Some(Timestamp(YEAR_10000, 0)), Some(BeyondChrono)}

NextRoundTrip ==
    \/ ~Aborted /\ Invoke(Solo, "create_user", CreateUserReq("n1", "e1"))
    \/ CU_Check(Solo)
    \/ CU_Insert(Solo)
    \/ \E due \in DueDates :
          ~Aborted /\ uuid.tasks < MaxTasks /\ CT_Start(Solo, CreateTaskReq(<<>>, due))
    \/ CT_Stamp(Solo)
    \/ CT_Store(Solo)
    \/ \E id \in IssuedTaskIds :
          ~Aborted /\ PT_Start(Solo, id, Some(Attached(Ts(-1))), <<"attachments">>)
    \/ PT_Lock(Solo)
    \/ PT_Apply(Solo)
    \/ \E id \in IssuedTaskIds : ~Aborted /\ Invoke(Solo, "delete_task", IdReq(id))
    \/ DT_Delete(Solo)
    \/ ~Aborted /\ Invoke(Solo, "force_save", <<>>)
    \/ ~Aborted /\ Invoke(Solo, "reload", <<>>)
    \/ ~Aborted /\ Invoke(Solo, "backup_to", <<>>)
    \/ ~Aborted /\ Invoke(Solo, "restore_from", <<>>)
    \/ Save(Solo)
    \/ LD_Read(Solo)
    \/ LD_Assign(Solo)
    \/ Respond(Solo)
    \/ Main

SpecRoundTrip == Init /\ [][NextRoundTrip]_vars

-----------------------------------------------------------------------------
(* SpecLoad: loading and restoring from files that may be damaged *)

NextLoad ==
    \/ ~Aborted /\ uuid.tasks < MaxLoadTasks /\ CT_Start(Solo, CreateTaskReq(<<>>, None))
    \/ CT_Stamp(Solo)
    \/ CT_Store(Solo)
    \/ ~Aborted /\ Invoke(Solo, "reload", <<>>)
    \/ ~Aborted /\ Invoke(Solo, "backup_to", <<>>)
    \/ ~Aborted /\ Invoke(Solo, "restore_from", <<>>)
    \/ Save(Solo)
    \/ LD_Read(Solo)
    \/ LD_Assign(Solo)
    \/ Respond(Solo)
    \/ Main
    \/ \E path \in {"primary", "backup"} : Damage(path)
    \/ \E path \in {"primary", "backup"} : Reformat(path)

SpecLoad == Init /\ [][NextLoad]_vars

-----------------------------------------------------------------------------
(* SpecFault: mutating calls while the file system may refuse writes *)

NextFault ==
    \/ uuid.tasks < MaxLoadTasks /\ CT_Start(Solo, CreateTaskReq(<<>>, None))
    \/ CT_Stamp(Solo)
    \/ CT_Store(Solo)
    \/ \E id \in TaskIdArgs :
          PT_Start(Solo, id, Some(TaskBody(STATUS_DONE, <<>>)), <<"status">>)
    \/ PT_Lock(Solo)
    \/ PT_Apply(Solo)
    \/ \E id \in IssuedTaskIds : Invoke(Solo, "delete_task", IdReq(id))
    \/ DT_Delete(Solo)
    \/ Invoke(Solo, "force_save", <<>>)
    \/ Save(Solo)
    \/ Respond(Solo)
    \/ \E b \in BOOLEAN : SetReadOnly(b)

SpecFault == Init /\ [][NextFault]_vars

-----------------------------------------------------------------------------
(* SpecOverdue: due dates, statuses and the overdue count *)

NextOverdue ==
    \/ Tick
    \/ \E due \in {None, Some(Ts(0)), Some(Ts(-1))} :
          uuid.tasks < MaxOverdueTasks /\ CT_Start(Solo, CreateTaskReq(<<>>, due))
    \/ CT_Stamp(Solo)
    \/ CT_Store(Solo)
    \/ \E id \in IssuedTaskIds :
          PT_Start(Solo, id, Some(TaskBody(STATUS_DONE, <<>>)), <<"status">>)
    \/ PT_Lock(Solo)
    \/ PT_Apply(Solo)
    \/ Invoke(Solo, "get_task_analytics", <<>>)
    \/ GA_Count(Solo)
    \/ GA_Stamp(Solo)
    \/ Save(Solo)
    \/ Respond(Solo)

SpecOverdue == Init /\ [][NextOverdue]_vars

-----------------------------------------------------------------------------
(* SpecList: the paginated list handlers *)

\* the largest unsigned integer of w bytes, and the number after it
MaxOf(w) == Complement(Uint(0), w)
Beyond(w) == Plus(MaxOf(w), 1)

\* the token of page n
PageToken(n) == format_page(Uint(n))

\* tokens at the limits of u32 and of usize: "4294967295", "4294967296",
\* "page_18446744073709551615", "page_18446744073709551616"
LimitTokens ==
    {ToDigits(MaxOf(u32_bytes)), ToDigits(Beyond(u32_bytes)),
     format_page(MaxOf(usize_bytes)), format_page(Beyond(usize_bytes))}

Tokens ==
    {<<>>, PageToken(0), PageToken(1), PageToken(2), <<"1">>,
     PagePrefix \o <<"x">>, PagePrefix \o <<"-", "1">>, PagePrefix \o <<"+", "1">>}

\* the page sizes of the requests: an i32, negative ones included
PageSizes == -1..MaxPageSize

NextList ==
    \/ Invoke(Solo, "create_user", CreateUserReq("n1", "e1"))
    \/ CU_Check(Solo)
    \/ CU_Insert(Solo)
    \/ \E a \in AssigneeArgs :
          uuid.tasks < MaxListTasks /\ CT_Start(Solo, CreateTaskReq(a, None))
    \/ CT_Stamp(Solo)
    \/ CT_Store(Solo)
    \/ \E n \in PageSizes, t \in Tokens : Invoke(Solo, "list_tasks", PageReq(<<>>, n, t))
    \/ \E t \in LimitTokens : Invoke(Solo, "list_tasks", PageReq(<<>>, 1, t))
    \/ \E n \in PageSizes, t \in {<<>>, PageToken(1)} :
          Invoke(Solo, "list_users", PageReq(<<>>, n, t))
    \/ \E u \in UserIdArgs, n \in PageSizes, t \in {<<>>, PageToken(1)} :
          Invoke(Solo, "get_user_tasks", PageReq(u, n, t))
    \/ LS_List(Solo)
    \/ LS_Count(Solo)
    \/ Save(Solo)
    \/ Respond(Solo)

SpecList == Init /\ [][NextList]_vars

-----------------------------------------------------------------------------
(* SpecPages: the pages of the task list, and tokens that do not decode *)

\* tokens that do not decode: no "page_" prefix ("1", "4294967295"), no
\* number after it, a negative number after it, a number beyond usize
BadTokens ==
    {<<"1">>, ToDigits(MaxOf(u32_bytes)), PagePrefix, PagePrefix \o <<"x">>,
     PagePrefix \o <<"-", "1">>, format_page(Beyond(usize_bytes))}

\* those that are not at the limit of usize
ShortBadTokens == BadTokens \ {format_page(Beyond(usize_bytes))}

NextPages ==
    \/ Invoke(Solo, "create_user", CreateUserReq("n1", "e1"))
    \/ CU_Check(Solo)
    \/ CU_Insert(Solo)
    \/ uuid.tasks < MaxListTasks /\ CT_Start(Solo, CreateTaskReq(UserId(1), None))
    \/ CT_Stamp(Solo)
    \/ CT_Store(Solo)
    \/ \E n \in 1..MaxPageSize, t \in {<<>>, PageToken(1), PageToken(2)} :
          Invoke(Solo, "list_tasks", PageReq(<<>>, n, t))
    \/ \E t \in BadTokens : Invoke(Solo, "list_tasks", PageReq(<<>>, 1, t))
    \/ \E t \in ShortBadTokens : Invoke(Solo, "list_users", PageReq(<<>>, 1, t))
    \/ \E t \in ShortBadTokens :
          Invoke(Solo, "get_user_tasks", PageReq(UserId(1), 1, t))
    \/ LS_List(Solo)
    \/ LS_Count(Solo)
    \/ Save(Solo)
    \/ Respond(Solo)

SpecPages == Init /\ [][NextPages]_vars

-----------------------------------------------------------------------------
(* SpecConc: create_user requests and saves running concurrently, a file   *)
(* written by any number of write(2) calls                                 *)

NextConc ==
    \E p \in Procs :
        \/ Invoke(p, "create_user", CreateUserReq("n1", "e1"))
        \/ CU_Check(p)
        \/ CU_Insert(p)
        \/ Invoke(p, "force_save", <<>>)
        \/ SV_Lock(p)
        \/ SV_Mkdir(p)
        \/ SV_Open(p)
        \/ \E k \in 1..Len(DocKeys) : SV_Write(p, k)
        \/ SV_Rename(p)
        \/ SV_Unlock(p)
        \/ Respond(p)

SpecConc == Init /\ [][NextConc]_vars

-----------------------------------------------------------------------------
(* SpecReaders: patches, readers and snapshots running concurrently *)

ConcMask == <<"title", "status">>

\* the queries of the search: one that the title matches before and after
\* the patch, one that it matches only after it, one that nothing matches
Queries == {<<"T">>, <<"1">>, <<"z">>}


\* One task serves the writers and the others the readers, one read
\* request at a time.
NextReaders ==
    \/ uuid.tasks < MaxConcTasks /\ CT_Start(Solo, CreateTaskReq(<<>>, None))
    \/ CT_Stamp(Solo)
    \/ CT_Store(Solo)
    \/ uuid.tasks > 0
       /\ PT_Start(Solo, TaskId(1), Some(TaskBody(STATUS_DONE, <<>>)), ConcMask)
    \/ PT_Lock(Solo)
    \/ PT_Apply(Solo)
    \/ \E p \in Procs \ {Solo} :
          /\ uuid.tasks > 0
          /\ InPair(p)
          /\ \/ Invoke(p, "get_task", IdReq(TaskId(1)))
             \/ Invoke(p, "list_tasks", PageReq(<<>>, MaxPageSize, <<>>))
             \/ \E q \in Queries : Invoke(p, "search_tasks", [query |-> q])
             \/ Invoke(p, "get_task_analytics", <<>>)
             \/ Invoke(p, "force_save", <<>>)
    \/ \E p \in Procs :
          \/ GT_Read(p)
          \/ LS_List(p)
          \/ LS_Count(p)
          \/ SR_Search(p)
          \/ GA_Count(p)
          \/ GA_Stamp(p)
          \/ LK_Wait(p)
          \/ Save(p)
          \/ Respond(p)

SpecReaders == Init /\ [][NextReaders]_vars

-----------------------------------------------------------------------------
(* SpecCreate: create_task requests running concurrently, each with its    *)
(* auto-save                                                               *)

NextCreate ==
    \E p \in Procs :
        \/ uuid.tasks < MaxCreateTasks /\ CT_Start(p, CreateTaskReq(<<>>, None))
        \/ CT_Stamp(p)
        \/ CT_Store(p)
        \/ Save(p)
        \/ Respond(p)

SpecCreate == Init /\ [][NextCreate]_vars

-----------------------------------------------------------------------------
(* SpecSave: mutations and their overlapping auto-saves; a file is written *)
(* by one write(2) or by two. The tasks have no due date, or one before    *)
(* the epoch.                                                              *)

NextSave ==
    \E p \in Procs :
        \/ \E due \in {None, Some(Ts(-1))} :
              uuid.tasks < MaxSaveTasks /\ CT_Start(p, CreateTaskReq(<<>>, due))
        \/ CT_Stamp(p)
        \/ CT_Store(p)
        \/ SV_Lock(p)
        \/ SV_Mkdir(p)
        \/ SV_Open(p)
        \/ \E k \in {2, Len(DocKeys) - 2, Len(DocKeys)} : SV_Write(p, k)
        \/ SV_Rename(p)
        \/ SV_Unlock(p)
        \/ Respond(p)

SpecSave == Init /\ [][NextSave]_vars

-----------------------------------------------------------------------------
(* SpecImport: one import_tasks call, its pipeline and its consumer *)

NextImport ==
    \/ IM_Start
    \/ \E elem \in {InboundOk, InboundLate, InboundErr} :
          Len(calls.import.taken) < MaxImport /\ IM_Next(Solo, elem)
    \/ CT_Stamp(Solo)
    \/ CT_Store(Solo)
    \/ Save(Solo)
    \/ IM_End
    \/ IM_Send
    \/ IM_Recv
    \/ IM_Disconnect

SpecImport == Init /\ [][NextImport]_vars

-----------------------------------------------------------------------------
(* SpecUpload: one upload_task_attachment call, chunk by chunk *)

\* the chunks a client can send: with or without a task id, with or
\* without the pair of filename and content type
Chunks ==
    {ChunkOf(<<>>, <<>>, <<>>), ChunkOf(TaskId(1), <<>>, <<>>),
     ChunkOf(TaskId(1), <<"f">>, <<"c">>), ChunkOf(GhostId, <<"g">>, <<"d">>),
     ChunkOf(<<>>, <<"g">>, <<"d">>)}

NextUpload ==
    \/ Tick
    \/ uuid.tasks < MaxTasks /\ CT_Start(Solo, CreateTaskReq(<<>>, None))
    \/ CT_Stamp(Solo)
    \/ CT_Store(Solo)
    \/ UP_Start
    \/ \E c \in Chunks : Len(calls.upload.taken) < MaxChunks /\ UP_Chunk(c)
    \/ UP_Error
    \/ UP_End(Solo)
    \/ UF_Get(Solo)
    \/ RW_Put(Solo)
    \/ Save(Solo)
    \/ Respond(Solo)

SpecUpload == Init /\ [][NextUpload]_vars

-----------------------------------------------------------------------------
(* SpecAtomic: the critical sections of create_user, delete_user,           *)
(* create_task, delete_task and the two batch creates, one step per        *)
(* statement, next to snapshots                                            *)

RECURSIVE Statements(_, _, _)
\* the statements a critical section executes on d, each with the entity
\* it inserts or removes; x is the entity to insert, the entities of a
\* batch, or the request of a delete
Statements(op, d, x) ==
    LET each(stmts, e) == [i \in 1..Len(stmts) |-> <<stmts[i], e>>]
    IN  CASE op = "create_user" ->
                each(<<"users.insert", "users_by_email.insert",
                       "users_by_username.insert", "user_tasks.insert">>, x)
          [] op = "create_task" ->
                each(<<"tasks.insert">>
                     \o (IF x.assigned_to # <<>> THEN <<"user_tasks.push">> ELSE <<>>), x)
          [] op = "batch_create_users" ->
                IF x = <<>> THEN <<>>
                ELSE Statements("create_user", d, Head(x)) \o Statements(op, d, Tail(x))
          [] op = "batch_create_tasks" ->
                IF x = <<>> THEN <<>>
                ELSE Statements("create_task", d, Head(x)) \o Statements(op, d, Tail(x))
          [] op = "delete_user" ->
                IF x.id \in DOMAIN d.users
                THEN each(<<"users.remove", "users_by_email.remove",
                            "users_by_username.remove", "user_tasks.remove">>,
                          d.users[x.id])
                ELSE <<>>
          [] op = "delete_task" ->
                IF x.id \in DOMAIN d.tasks
                THEN each(<<"tasks.remove">>
                          \o (IF d.tasks[x.id].assigned_to # <<>>
                                 /\ d.tasks[x.id].assigned_to \in DOMAIN d.user_tasks
                              THEN <<"user_tasks.retain">> ELSE <<>>),
                          d.tasks[x.id])
                ELSE <<>>

\* one statement; x is the entity inserted or the entity that was removed
Exec(d, stmt, x) ==
    CASE stmt = "users.insert" -> [d EXCEPT !.users = Insert(@, x.id, x)]
      [] stmt = "users_by_email.insert" ->
            [d EXCEPT !.users_by_email = Insert(@, x.email, x.id)]
      [] stmt = "users_by_username.insert" ->
            [d EXCEPT !.users_by_username = Insert(@, x.username, x.id)]
      [] stmt = "user_tasks.insert" -> [d EXCEPT !.user_tasks = Insert(@, x.id, <<>>)]
      [] stmt = "users.remove" -> [d EXCEPT !.users = Remove(@, x.id)]
      [] stmt = "users_by_email.remove" ->
            [d EXCEPT !.users_by_email = Remove(@, x.email)]
      [] stmt = "users_by_username.remove" ->
            [d EXCEPT !.users_by_username = Remove(@, x.username)]
      [] stmt = "user_tasks.remove" -> [d EXCEPT !.user_tasks = Remove(@, x.id)]
      [] stmt = "tasks.insert" -> [d EXCEPT !.tasks = Insert(@, x.id, x)]
      [] stmt = "user_tasks.push" ->
            [d EXCEPT !.user_tasks =
                Insert(@, x.assigned_to,
                       (IF x.assigned_to \in DOMAIN @ THEN @[x.assigned_to] ELSE <<>>)
                       \o <<x.id>>)]
      [] stmt = "tasks.remove" -> [d EXCEPT !.tasks = Remove(@, x.id)]
      [] stmt = "user_tasks.retain" ->
            [d EXCEPT !.user_tasks[x.assigned_to] = Retain(@, {x.id})]

\* the storage operation as a whole
WholeOp(op, d, x) ==
    CASE op = "create_user" -> create_user(d, x)
      [] op = "delete_user" -> delete_user(d, x.id).data
      [] op = "create_task" -> create_task(d, x)
      [] op = "delete_task" -> delete_task(d, x.id).data
      [] op = "batch_create_users" -> batch_create_users(d, x)
      [] op = "batch_create_tasks" -> batch_create_tasks(d, x)

\* a storage operation is called; x is the entity to insert, the entities
\* of a batch, or the request of a delete
Enter(p, op, x) ==
    /\ Begin(p, "at_enter", [NoLocal EXCEPT !.op = op, !.patch = x])
    /\ UNCHANGED <<data, iter, now, stream, calls, disk, lock>>

\* Storage::create_user is called with a new user
AT_CreateUser(p, req) ==
    /\ Enter(p, "create_user",
             NewUser(UserId(uuid.users + 1), req, system_time_to_timestamp(now)))
    /\ uuid' = [uuid EXCEPT !.users = @ + 1]

\* Storage::delete_user is called
AT_DeleteUser(p, id) ==
    /\ Enter(p, "delete_user", IdReq(id))
    /\ UNCHANGED uuid

\* Storage::create_task is called with a new task
AT_CreateTask(p, req) ==
    /\ Enter(p, "create_task",
             NewTask(TaskId(uuid.tasks + 1), req, system_time_to_timestamp(now),
                     system_time_to_timestamp(now)))
    /\ uuid' = [uuid EXCEPT !.tasks = @ + 1]

\* Storage::delete_task is called
AT_DeleteTask(p, id) ==
    /\ Enter(p, "delete_task", IdReq(id))
    /\ UNCHANGED uuid

\* Storage::batch_create_users is called with new users
AT_BatchCreateUsers(p, reqs) ==
    /\ Enter(p, "batch_create_users",
             [i \in 1..Len(reqs) |->
                 NewUser(UserId(uuid.users + i), reqs[i], system_time_to_timestamp(now))])
    /\ uuid' = [uuid EXCEPT !.users = @ + Len(reqs)]

\* Storage::batch_create_tasks is called with new tasks
AT_BatchCreateTasks(p, reqs) ==
    /\ Enter(p, "batch_create_tasks",
             [i \in 1..Len(reqs) |->
                 NewTask(TaskId(uuid.tasks + i), reqs[i], system_time_to_timestamp(now),
                         system_time_to_timestamp(now))])
    /\ uuid' = [uuid EXCEPT !.tasks = @ + Len(reqs)]

\* the critical section entered without the write guard
AT_Enter_unguarded(p) ==
    /\ pc[p] = "at_enter"
    /\ Granted(p)
    /\ Step(p, "at_step",
            [loc[p] EXCEPT !.todo = Statements(loc[p].op, data, loc[p].patch),
                           !.before = data])
    /\ UNCHANGED <<data, iter, now, stream, calls, uuid, disk, last>>

\* self.data.write().await is granted: the critical section begins;
\* `before` keeps the state it found
AT_Enter(p) ==
    /\ pc[p] = "at_enter"
    /\ write_admits(lock, p)
    /\ lock' = [lock EXCEPT !.writer = p, !.waiting = Retain(@, {p})]
    /\ Step(p, "at_step",
            [loc[p] EXCEPT !.todo = Statements(loc[p].op, data, loc[p].patch),
                           !.before = data])
    /\ UNCHANGED <<data, iter, now, stream, calls, uuid, disk, last>>

\* the next statement of the critical section, or its end: the write guard
\* is dropped and, unless a delete found nothing, auto_save_if_enabled runs
AT_Step(p) ==
    /\ pc[p] = "at_step"
    /\ IF loc[p].todo # <<>>
       THEN /\ data' = Exec(data, Head(loc[p].todo)[1], Head(loc[p].todo)[2])
            /\ iter' = [users |-> After(iter.users, DOMAIN data'.users,
                                      Head(loc[p].todo)[1] = "users.insert"),
                        tasks |-> After(iter.tasks, DOMAIN data'.tasks,
                                      Head(loc[p].todo)[1] = "tasks.insert")]
            /\ loc' = [loc EXCEPT ![p].todo = Tail(@)]
            /\ UNCHANGED <<lock, pc, calls>>
       ELSE /\ lock' = [lock EXCEPT !.writer = 0]
            /\ IF data # loc[p].before \/ loc[p].op \notin {"delete_user", "delete_task"}
               THEN Stored(p, [loc[p] EXCEPT !.resp = "Ok", !.out = TRUE])
               ELSE Step(p, "ret", [loc[p] EXCEPT !.resp = "Ok", !.out = FALSE])
                    /\ UNCHANGED calls
            /\ UNCHANGED <<data, iter>>
    /\ UNCHANGED <<now, stream, uuid, disk, last>>

\* the batches of the specification: two users, two tasks of the first user
NewUsers == <<CreateUserReq("n1", "e1"), CreateUserReq("n2", "e2")>>
NewTasks == <<CreateTaskReq(UserId(1), None), CreateTaskReq(UserId(1), None)>>

\* Solo serves the creations, the other tasks the deletions and the
\* saves, one of them at a time.
NextAtomic ==
    \/ uuid.users + uuid.tasks < MaxAtomic
       /\ AT_CreateUser(Solo, CreateUserReq("n1", "e1"))
    \/ uuid.users + uuid.tasks < MaxAtomic
       /\ AT_CreateTask(Solo, CreateTaskReq(UserId(1), None))
    \/ uuid.users + uuid.tasks + Len(NewUsers) <= MaxAtomic
       /\ AT_BatchCreateUsers(Solo, NewUsers)
    \/ uuid.users + uuid.tasks + Len(NewTasks) <= MaxAtomic
       /\ AT_BatchCreateTasks(Solo, NewTasks)
    \/ \E p \in Procs \ {Solo} :
          /\ InPair(p)
          /\ \/ \E id \in IssuedUserIds : AT_DeleteUser(p, id)
             \/ \E id \in IssuedTaskIds : AT_DeleteTask(p, id)
             \/ Invoke(p, "force_save", <<>>)
    \/ \E p \in Procs :
          \/ LK_Wait(p)
          \/ AT_Enter(p)
          \/ AT_Step(p)
          \/ Save(p)
          \/ Respond(p)

SpecAtomic == Init /\ [][NextAtomic]_vars

-----------------------------------------------------------------------------
(* SpecDelete: users and tasks created and deleted, also twice *)

NextDelete ==
    \/ Invoke(Solo, "create_user", CreateUserReq("n1", "e1"))
    \/ CU_Check(Solo)
    \/ CU_Insert(Solo)
    \/ \E a \in AssigneeArgs :
          uuid.tasks < MaxDeleteTasks /\ CT_Start(Solo, CreateTaskReq(a, None))
    \/ CT_Stamp(Solo)
    \/ CT_Store(Solo)
    \/ \E id \in UserIdArgs : Invoke(Solo, "delete_user", IdReq(id))
    \/ DU_Delete(Solo)
    \/ \E id \in TaskIdArgs : Invoke(Solo, "delete_task", IdReq(id))
    \/ DT_Delete(Solo)
    \/ Save(Solo)
    \/ Respond(Solo)

SpecDelete == Init /\ [][NextDelete]_vars

-----------------------------------------------------------------------------
(* SpecUpsert: whole-entity updates of identifiers present and absent *)

NextUpsert ==
    \/ Invoke(Solo, "create_user", CreateUserReq("n1", "e1"))
    \/ CU_Check(Solo)
    \/ CU_Insert(Solo)
    \/ \E id \in UserIdArgs, e \in Emails : UU_Start(Solo, id, Some(UserBody("n2", e)))
    \/ \E id \in UserIdArgs : UU_Start(Solo, id, None)
    \/ RU_Put(Solo)
    \/ uuid.tasks < MaxUpsertTasks /\ CT_Start(Solo, CreateTaskReq(<<>>, None))
    \/ CT_Stamp(Solo)
    \/ CT_Store(Solo)
    \/ \E id \in TaskIdArgs, a \in AssigneeArgs :
          ST_UpdateTask(Solo, [TaskBody(STATUS_DONE, a) EXCEPT !.id = id])
    \/ RW_Put(Solo)
    \/ \E id \in IssuedTaskIds : Invoke(Solo, "delete_task", IdReq(id))
    \/ DT_Delete(Solo)
    \/ Save(Solo)
    \/ Respond(Solo)

SpecUpsert == Init /\ [][NextUpsert]_vars

-----------------------------------------------------------------------------
(* SpecWalk: a client pages through list_tasks, following the tokens it    *)
(* is given, while nothing else touches the store                          *)

NextWalk ==
    \/ /\ calls.client.state = "idle"
       /\ uuid.tasks < MaxListTasks
       /\ CT_Start(Solo, CreateTaskReq(<<>>, None))
    \/ CT_Stamp(Solo)
    \/ CT_Store(Solo)
    \/ \E id \in IssuedTaskIds :
          calls.client.state = "idle" /\ Invoke(Solo, "delete_task", IdReq(id))
    \/ DT_Delete(Solo)
    \/ Save(Solo)
    \/ \E n \in 1..MaxPageSize : Quiet /\ CL_Begin(n)
    \/ calls.client.requests < MaxWalk /\ CL_Request(Solo)
    \/ LS_List(Solo)
    \/ LS_Count(Solo)
    \/ Respond(Solo)
    \/ CL_Take

SpecWalk == Init /\ [][NextWalk]_vars

-----------------------------------------------------------------------------
(* SpecRace: the read-modify-write handlers of tasks (bulk_update_tasks,   *)
(* the end of upload_task_attachment) next to concurrent deletes and       *)
(* patches; requests name one task                                         *)

NextRace ==
    \E p \in Procs :
        \/ uuid.tasks < MaxRaceTasks /\ CT_Start(p, CreateTaskReq(<<>>, None))
        \/ CT_Stamp(p)
        \/ CT_Store(p)
        \/ \E id \in IssuedTaskIds :
              BU_Start(p, BulkReq(<<id>>, STATUS_UNSPECIFIED, <<>>))
        \/ BU_Get(p)
        \/ UP_Start
        \/ calls.upload.taken = <<>> /\ UP_Chunk(ChunkOf(TaskId(1), <<"f">>, <<"c">>))
        \/ UP_End(p)
        \/ UF_Get(p)
        \/ RW_Put(p)
        \/ \E id \in IssuedTaskIds : Invoke(p, "delete_task", IdReq(id))
        \/ DT_Delete(p)
        \/ \E id \in IssuedTaskIds :
              PT_Start(p, id, Some(TaskBody(STATUS_DONE, <<>>)), <<"title">>)
        \/ PT_Lock(p)
        \/ PT_Apply(p)
        \/ Save(p)
        \/ Respond(p)

SpecRace == Init /\ [][NextRace]_vars

-----------------------------------------------------------------------------
(* SpecUserRace: the read-modify-write handlers of users (login,           *)
(* authenticate_user, update_user_preferences) next to concurrent          *)
(* delete_user requests                                                    *)

NextUserRace ==
    \E p \in Procs :
        \/ Invoke(p, "create_user", CreateUserReq("n1", "e1"))
        \/ CU_Check(p)
        \/ CU_Insert(p)
        \/ Invoke(p, "login", [username |-> "n1"])
        \/ LG_Get(p)
        \/ Invoke(p, "authenticate_user", [email |-> "e1"])
        \/ AU_Get(p)
        \/ \E id \in IssuedUserIds : Invoke(p, "update_user_preferences", IdReq(id))
        \/ PR_Get(p)
        \/ RU_Put(p)
        \/ \E id \in IssuedUserIds : Invoke(p, "delete_user", IdReq(id))
        \/ DU_Delete(p)
        \/ Save(p)
        \/ Respond(p)

SpecUserRace == Init /\ [][NextUserRace]_vars

-----------------------------------------------------------------------------
(* SpecOwned: the task list of a user, read in pages while tasks are       *)
(* created, reassigned and deleted                                         *)

NextOwned ==
    \/ Invoke(Solo, "create_user", CreateUserReq("n1", "e1"))
    \/ CU_Check(Solo)
    \/ CU_Insert(Solo)
    \/ \E a \in AssigneeArgs :
          uuid.tasks < MaxOwnedTasks /\ CT_Start(Solo, CreateTaskReq(a, None))
    \/ CT_Stamp(Solo)
    \/ CT_Store(Solo)
    \/ \E id \in IssuedTaskIds :
          PT_Start(Solo, id, Some(TaskBody(STATUS_TODO, <<>>)), <<"assignedTo">>)
    \/ PT_Lock(Solo)
    \/ PT_Apply(Solo)
    \/ \E id \in IssuedTaskIds : Invoke(Solo, "delete_task", IdReq(id))
    \/ DT_Delete(Solo)
    \/ \E u \in IssuedUserIds, n \in 0..MaxPageSize,
          t \in {<<>>, PageToken(0), PageToken(1)} :
          Invoke(Solo, "get_user_tasks", PageReq(u, n, t))
    \/ LS_List(Solo)
    \/ LS_Count(Solo)
    \/ Save(Solo)
    \/ Respond(Solo)

SpecOwned == Init /\ [][NextOwned]_vars

-----------------------------------------------------------------------------
(* SpecFlow: a streamed import long enough to fill the response channel,   *)
(* every element a request that decodes                                    *)

NextFlow ==
    \/ IM_Start
    \/ Len(calls.import.taken) < MaxFlow /\ IM_Next(Solo, InboundOk)
    \/ CT_Stamp(Solo)
    \/ CT_Store(Solo)
    \/ Save(Solo)
    \/ IM_End
    \/ IM_Send
    \/ IM_Recv
    \/ IM_Disconnect

SpecFlow == Init /\ [][NextFlow]_vars

-----------------------------------------------------------------------------
(* SpecLive: store operations that wait for the lock (create_task,         *)
(* update_task and delete_task with their auto-saves, force_save,          *)
(* backup_to, restore_from, get_task) under fair scheduling                *)

\* Solo serves the requests on tasks, the other tasks the saves, backups,
\* restores and reads, one of them at a time.
NextLive ==
    \/ uuid.tasks < MaxLiveTasks /\ CT_Start(Solo, CreateTaskReq(<<>>, None))
    \/ uuid.tasks > 0
       /\ PT_Start(Solo, TaskId(1), Some(TaskBody(STATUS_DONE, <<>>)), <<"status">>)
    \/ uuid.tasks > 0 /\ Invoke(Solo, "delete_task", IdReq(TaskId(1)))
    \/ \E p \in Procs \ {Solo} :
          /\ InPair(p)
          /\ \/ \E op \in {"force_save", "backup_to", "restore_from"} :
                   Invoke(p, op, <<>>)
             \/ uuid.tasks > 0 /\ Invoke(p, "get_task", IdReq(TaskId(1)))
    \/ \E p \in Procs :
          \/ CT_Stamp(p)
          \/ CT_Store(p)
          \/ PT_Lock(p)
          \/ PT_Apply(p)
          \/ DT_Delete(p)
          \/ GT_Read(p)
          \/ LD_Read(p)
          \/ LD_Assign(p)
          \/ LK_Wait(p)
          \/ Save(p)
          \/ Respond(p)

\* the steps of p once its request was taken up
Runs(p) ==
    \/ CT_Stamp(p)
    \/ CT_Store(p)
    \/ PT_Lock(p)
    \/ PT_Apply(p)
    \/ DT_Delete(p)
    \/ GT_Read(p)
    \/ LD_Read(p)
    \/ LD_Assign(p)
    \/ LK_Wait(p)
    \/ SV_Lock(p)
    \/ SV_Mkdir(p)
    \/ SV_Open(p)
    \/ SV_Write(p, WholeFile)
    \/ SV_Rename(p)
    \/ SV_Unlock(p)
    \/ Respond(p)

\* the tokio scheduler polls every ready task and the file-system calls
\* return: a task that can go on does go on. The lock is granted in the
\* order of its queue, so that no more is needed for it to be granted
Fairness == \A p \in Procs : WF_vars(Runs(p))

SpecLive == Init /\ [][NextLive]_vars /\ Fairness

-----------------------------------------------------------------------------
(* Properties *)

\* C1: every task identifier in user_tasks[u] is in the task map, and that
\* task is assigned to u
C1_UserTasksCoherent ==
    \A u \in DOMAIN data.user_tasks :
        \A i \in 1..Len(data.user_tasks[u]) :
            /\ data.user_tasks[u][i] \in DOMAIN data.tasks
            /\ data.tasks[data.user_tasks[u][i]].assigned_to = u

\* C2: the file at the persistence path is absent or holds one complete
\* serialized snapshot
C2_PrimaryFileComplete ==
    disk.primary # None => IsDocument(disk.primary[1])

\* C3: a create_user whose email is the email of a user in the store fails
\* with AlreadyExists and leaves the store as it was
C3_DuplicateEmailRejected ==
    [][\A p \in Procs :
          (/\ pc[p] = "cu_check" /\ pc'[p] # "cu_check"
           /\ \E u \in DOMAIN data.users : data.users[u].email = loc[p].req.email)
          => (/\ pc'[p] = "ret"
              /\ loc'[p].resp = "AlreadyExists"
              /\ data' = data)]_vars

\* C4: the user map never holds two users with the same email
C4_NoTwoUsersShareEmail ==
    \A u1, u2 \in DOMAIN data.users :
        u1 # u2 => data.users[u1].email # data.users[u2].email

\* C5: a successful masked patch stamps the stored task's updated_at with
\* the time of the patch, whatever the mask
C5_PatchStampsUpdatedAt ==
    [][\A p \in Procs :
          (pc[p] = "pt_apply" /\ pc'[p] # "pt_apply")
          => data'.tasks[loc[p].id].updated_at = loc[p].patch.updated_at]_vars

TaskFields == {"id", "title", "description", "status", "priority", "tags",
               "assigned_to", "created_at", "updated_at", "due_date",
               "metrics", "comments", "attachments"}

\* the name by which a mask designates a field of Task
MaskName(f) == IF f = "assigned_to" THEN "assignedTo" ELSE f

KnownMaskNames == Range(OtherFields) \cup {"status", "title"}

\* C6: a masked patch leaves every field the mask does not name (other than
\* updated_at) as it was, ignores names it does not know, and changes no
\* other task and nothing of the users and indexes
C6_PatchFrame ==
    [][\A p \in Procs :
          /\ pc[p] = "pt_apply"
             => LET id == loc[p].id
                    mask == loc[p].mask
                IN  /\ DOMAIN data'.tasks = DOMAIN data.tasks
                    /\ \A f \in TaskFields \ {"updated_at"} :
                          MaskName(f) \notin Range(mask)
                          => data'.tasks[id][f] = loc[p].before[f]
                    /\ Range(mask) \cap KnownMaskNames = {}
                       => data'.tasks[id] = loc[p].before
                    /\ \A t \in DOMAIN data.tasks \ {id} : data'.tasks[t] = data.tasks[t]
                    /\ data'.users = data.users
                    /\ data'.users_by_email = data.users_by_email
                    /\ data'.users_by_username = data.users_by_username
                    /\ data'.user_tasks = data.user_tasks
          /\ (loc[p].op = "update_task" /\ pc[p] # "pt_apply") => data' = data]_vars

\* a patch with mask ["status"] was applied to one of two tasks, with a
\* user in the store: the status is the patch's, the title is the old one
C6_Witness ==
    /\ last.op = "update_task" /\ last.status = "Ok"
    /\ last.req.mask = <<"status">>
    /\ data.tasks[last.req.id].status = STATUS_DONE
    /\ data.tasks[last.req.id].title = <<"t", "0">>
    /\ Cardinality(DOMAIN data.tasks) = 2
    /\ DOMAIN data.users # {}

\* C7: a patch of an identifier that is not in the task map answers
\* NotFound, creates no task, changes nothing in the store and saves nothing
C7_PatchNotFound ==
    [][\A p \in Procs :
          /\ (/\ pc[p] = "pt_lock" /\ pc'[p] # "pt_lock"
              /\ loc[p].id \notin DOMAIN data.tasks)
             => (/\ pc'[p] = "ret"
                 /\ loc'[p].resp = "NotFound"
                 /\ ~loc'[p].saved
                 /\ data' = data
                 /\ disk' = disk)
          /\ (/\ pc[p] = "ret" /\ pc'[p] # "ret"
              /\ loc[p].op = "update_task" /\ loc[p].resp = "NotFound")
             => (/\ last'.status = "NotFound"
                 /\ ~last'.saved
                 /\ data' = data
                 /\ disk' = disk)]_vars

\* a patch was refused with NotFound while the store held a task
C7_Witness ==
    /\ last.op = "update_task" /\ last.status = "NotFound"
    /\ last.req.id \notin DOMAIN data.tasks
    /\ DOMAIN data.tasks # {}

\* the task maps that exist between whole mutating operations: the current
\* one, or, while a patch holds the write lock, the one before it and the
\* one after it
WholeTaskMaps ==
    IF \E p \in Procs : pc[p] = "pt_apply"
    THEN LET p == CHOOSE q \in Procs : pc[q] = "pt_apply"
         IN  {[data.tasks EXCEPT ![loc[p].id] = loc[p].before],
              [data.tasks EXCEPT ![loc[p].id] =
                   ApplyMask(loc[p].before, loc[p].patch, loc[p].mask)]}
    ELSE {data.tasks}

\* the store with the task map m
WithTasks(m) == [data EXCEPT !.tasks = m]

\* C8: what a reader obtains is never computed from a task with only some
\* of the fields of a patch applied: the task get_task returns, the page
\* list_tasks returns, the matches search_tasks returns, each count of
\* get_task_analytics and the store save_to_disk serializes are those of
\* the task map before the patch or of the task map after it
C8_NoPartialPatchObserved ==
    [][\A q \in Procs :
          /\ (pc[q] = "gt_read" /\ pc'[q] = "ret")
             => \E m \in WholeTaskMaps : loc'[q].out.task = Get(m, loc[q].req.id)
          /\ (pc[q] = "ls_list" /\ pc'[q] = "ls_count")
             => \E m \in WholeTaskMaps : \E o \in Perms(DOMAIN m) :
                   Some(loc'[q].out.items)
                      \in list_tasks(WithTasks(m), o, loc[q].req.page_size,
                                     loc[q].req.page_token)
          /\ (pc[q] = "sr_search" /\ pc'[q] = "ret")
             => \E m \in WholeTaskMaps : \E o \in Perms(DOMAIN m) :
                   Some(loc'[q].out.tasks)
                      \in search_tasks(WithTasks(m), o, loc[q].req.query,
                                       SEARCH_PAGE_SIZE, <<>>)
          /\ (pc[q] = "ga_count" /\ loc'[q].todo # loc[q].todo)
             => \E m \in WholeTaskMaps :
                   loc'[q].out[Head(loc[q].todo)]
                      = Count(Head(loc[q].todo), WithTasks(m), now)
          /\ (pc[q] = "sv_lock" /\ pc'[q] = "sv_mkdir")
             => Deserialize(loc'[q].json).tasks \in WholeTaskMaps]_vars

\* a patch has applied the first of its two fields and holds the write lock
\* while a search that the new title matches waits in the queue of the lock
C8_Witness ==
    \E p, q \in Procs :
        /\ pc[p] = "pt_apply" /\ Len(loc[p].todo) = 1
        /\ data.tasks[loc[p].id].title = <<"T", "1">>
        /\ data.tasks[loc[p].id].status = STATUS_TODO
        /\ pc[q] = "sr_search" /\ loc[q].req.query = <<"1">>
        /\ q \in Range(lock.waiting)

\* no key or value of the user map, the indexes or user_tasks refers to id
NoReference(d, id) ==
    /\ id \notin DOMAIN d.users
    /\ \A e \in DOMAIN d.users_by_email : d.users_by_email[e] # id
    /\ \A n \in DOMAIN d.users_by_username : d.users_by_username[n] # id
    /\ id \notin DOMAIN d.user_tasks
    /\ \A u \in DOMAIN d.user_tasks : id \notin Range(d.user_tasks[u])

\* C9: once delete_user(id) has returned true, the user map, both indexes
\* and user_tasks hold no reference to id
C9_DeleteUserLeavesNoReference ==
    [][\A p \in Procs :
          (/\ pc[p] = "du_delete" /\ pc'[p] # "du_delete"
           /\ loc'[p].out = TRUE)
          => NoReference(data', loc[p].req.id)]_vars

ListOps == {"list_tasks", "list_users", "get_user_tasks"}

\* C10: a full batch for page N carries the token of page N+1, a short batch
\* carries the empty token
C10_NextPageToken ==
    (last.op \in ListOps /\ last.status = "Ok")
    => /\ Len(last.out.items) = last.req.page_size
          => last.out.next_page_token = format_page(Plus(page_num(last.req.page_token), 1))
       /\ Len(last.out.items) < last.req.page_size
          => last.out.next_page_token = <<>>

\* the token a client sends for page j
ClientToken(j) == IF j = 0 THEN <<>> ELSE PageToken(j)

\* the index of the last page of n items in pages of p: ceil(n/p) - 1
LastPage(n, p) == ((n + p - 1) \div p) - 1

\* what Storage::list_tasks returns for page j in pages of p, now, when the
\* map iterates in the order o
TaskBatch(o, p, j) == list_tasks(data, o, p, ClientToken(j))

\* C11: with the store left alone, the batches of list_tasks for the tokens
\* "", "page_1", ..., "page_k" (k = ceil(n/p) - 1) are pairwise disjoint,
\* have sizes p, ..., p, n - k*p, and together hold every task; the
\* list_tasks handler returns the batch of the token it was given
C11_PagesPartition ==
    /\ \A p \in 1..MaxPageSize : \A o \in NextOrders(iter.tasks, DOMAIN data.tasks) :
          LET n == count_tasks(data)
              k == LastPage(n, p)
          IN  /\ \A j \in 0..k : \A b \in TaskBatch(o, p, j) :
                    b # None /\ Len(b[1]) = (IF j < k THEN p ELSE n - k * p)
              /\ \A i, j \in 0..k : \A a \in TaskBatch(o, p, i), b \in TaskBatch(o, p, j) :
                    i # j => Range(a[1]) \cap Range(b[1]) = {}
              /\ UNION {Range(b[1]) : b \in UNION {TaskBatch(o, p, j) : j \in 0..k}}
                    = {data.tasks[t] : t \in DOMAIN data.tasks}
    /\ last.op = "list_tasks" /\ last.status = "Ok" /\ last.req.page_size > 0
       => /\ ~iter.tasks.stale
          /\ \A j \in 0..LastPage(count_tasks(data), last.req.page_size) :
                last.req.page_token = ClientToken(j)
                => TaskBatch(iter.tasks.order, last.req.page_size, j)
                      = {Some(last.out.items)}

\* list_tasks has returned the second, short page of three tasks in pages
\* of two
C11_Witness ==
    /\ last.op = "list_tasks"
    /\ last.req.page_size = 2 /\ last.req.page_token = PageToken(1)
    /\ count_tasks(data) = 3
    /\ Len(last.out.items) = 1

\* what the handler `op` returns for the empty token
FirstBatch(op, req) ==
    CASE op = "list_tasks" -> list_tasks(data, iter.tasks.order, req.page_size, <<>>)
      [] op = "list_users" -> list_users(data, iter.users.order, req.page_size, <<>>)
      [] op = "get_user_tasks" -> get_tasks_by_user(data, req.user_id, req.page_size, <<>>)

\* C12: a list request whose token does not decode succeeds and returns
\* the batch of the empty token
C12_BadTokenIsPageZero ==
    (last.op \in ListOps /\ last.req.page_token \in BadTokens)
    => /\ last.status = "Ok"
       /\ FirstBatch(last.op, last.req) = {Some(last.out.items)}

\* the create_task requests that have drawn their identifier and not stored
\* their task
Creating == {p \in Procs : pc[p] \in {"ct_stamp", "ct_store"}}

\* C13: concurrent create_task requests get identifiers distinct from one
\* another and from every identifier in the store; storing one adds one
\* task and leaves the others as they were, so that the task count grows
\* by the number of requests
C13_ConcurrentCreates ==
    /\ [](/\ \A p \in Creating : loc[p].id \notin DOMAIN data.tasks
          /\ \A p, q \in Creating : p # q => loc[p].id # loc[q].id
          /\ count_tasks(data) + Cardinality(Creating) = uuid.tasks)
    /\ [][\A p \in Procs :
            (pc[p] = "ct_store" /\ pc'[p] # "ct_store")
            => /\ loc[p].id = loc[p].patch.id
               /\ loc[p].id \notin DOMAIN data.tasks
               /\ loc[p].id \in DOMAIN data'.tasks
               /\ \A t \in DOMAIN data.tasks : data'.tasks[t] = data.tasks[t]
               /\ count_tasks(data') = count_tasks(data) + 1]_vars

\* two create_task requests have built their tasks while the store already
\* holds a task; neither has stored its own yet
C13_Witness ==
    /\ \A p \in Procs : pc[p] = "ct_store"
    /\ Cardinality(Creating) = 2
    /\ count_tasks(data) = 1

\* overdue at the second t: the due date is before it and the status is not
\* Done
IsOverdue(task, t) ==
    /\ task.due_date # None
    /\ LessI64(task.due_date[1].seconds, Uint(t))
    /\ task.status # STATUS_DONE

FileSteps == {"sv_mkdir", "sv_open", "sv_write", "sv_rename"}

\* C15: a request-handling task performs no file-system call of
\* persistence while it holds the lock of the store
C15_NoIOUnderLock ==
    [][\A p \in Procs :
          (pc[p] \in FileSteps /\ (pc'[p] # pc[p] \/ loc'[p] # loc[p]))
          => (p \notin lock.readers /\ lock.writer # p)]_vars

\* some state-changing store call has returned and no store call or save
\* is running
Quiescent ==
    /\ \A p \in Procs : pc[p] \in {"idle", "ret", "ct_stamp"}
    /\ count_tasks(data) > 0

\* C16: when a state-changing store call has returned and no store call
\* or save is running, the store can be serialized and the file at the
\* persistence path holds its serialization
C16_FileIsCurrentWhenQuiet ==
    Quiescent => /\ to_string_pretty(data, iter) = {"Ok"}
                 /\ disk.primary = Some(Serialize(data))

\* C17: right after a force_save that returned Ok, loading the persistence
\* path into a new store gives the users, tasks and indexes of the store
\* that was saved; likewise restore_from into a new store right after
\* backup_to
C17_SaveLoadRoundTrip ==
    [][\A p \in Procs :
          (pc[p] = "ret" /\ pc'[p] = "idle" /\ loc[p].resp = "Ok")
          => /\ loc[p].op = "force_save"
                => load_from_disk(disk', StorageData_default)
                      = [ok |-> TRUE, data |-> data']
             /\ loc[p].op = "backup_to"
                => restore_from(disk', StorageData_default)
                      = [ok |-> TRUE, data |-> data']]_vars

\* the file at `path` exists and cannot be read or parsed
Unloadable(path) == disk[path] # None /\ ~IsDocument(disk[path][1])

\* the file a load reads
LoadPath(op) == IF op = "restore_from" THEN "backup" ELSE "primary"

\* C18: reload and restore_from on a file that cannot be read or parsed
\* return Err and leave the store as it was; main aborts on such a file,
\* and after that nothing is served until a new process starts
C18_LoadFailureKeepsState ==
    [][/\ \A p \in Procs :
            /\ (/\ pc[p] = "ld_read" /\ pc'[p] # "ld_read"
                /\ Unloadable(LoadPath(loc[p].op)))
               => (/\ pc'[p] = "ret"
                   /\ loc'[p].resp = (IF loc[p].op = "main" THEN "Aborted" ELSE "Err")
                   /\ data' = data /\ iter' = iter)
            /\ (/\ pc[p] = "ret" /\ pc'[p] = "idle"
                /\ loc[p].op \in {"reload", "restore_from"} /\ loc[p].resp = "Err")
               => (last'.status = "Err" /\ data' = data /\ iter' = iter)
       /\ Aborted => \/ (pc'[Solo] = "ld_read" /\ loc'[Solo].op = "main")
                     \/ (last' = last /\ data' = data /\ pc' = pc)
      ]_vars

\* reload has failed on a damaged file while the store held a task, and
\* the task is still there
C18_Witness ==
    /\ last.op = "reload" /\ last.status = "Err"
    /\ Unloadable("primary")
    /\ count_tasks(data) = 1

\* C19: a mutating call whose auto-save failed does not report success
C19_SaveFailureReturned ==
    (/\ last.op \in {"create_task", "update_task", "delete_task"}
     /\ last.saved /\ last.io = "Err")
    => last.status # "Ok"

\* C20: the channel of an event stream never holds more than its capacity
\* of 10 events; while it is full the producer stays suspended in send with
\* its event; and while the consumer is connected every event built is
\* consumed, queued in order, or held by the producer: none is dropped or
\* overwritten
C20_BoundedQueueNoLoss ==
    /\ [](/\ Len(stream[Sub1].queue) <= CHANNEL_CAPACITY
          /\ stream[Sub1].state = "open"
             => /\ \A i \in 1..Len(stream[Sub1].queue) :
                      stream[Sub1].queue[i] = TaskEvent(stream[Sub1].received + i)
                /\ stream[Sub1].ppc = "send"
                   => stream[Sub1].event = Some(TaskEvent(stream[Sub1].received + Len(stream[Sub1].queue) + 1))
                /\ stream[Sub1].counter = stream[Sub1].received + Len(stream[Sub1].queue)
                                      + (IF stream[Sub1].ppc = "send" THEN 1 ELSE 0))
    /\ [][(/\ stream[Sub1].state = "open" /\ stream[Sub1].ppc = "send"
            /\ Len(stream[Sub1].queue) = CHANNEL_CAPACITY)
           => (/\ stream'[Sub1].ppc = "send"
               /\ stream'[Sub1].event = stream[Sub1].event
               /\ stream'[Sub1].counter = stream[Sub1].counter)]_vars

\* the channel is full and the producer is suspended in send with the
\* eleventh event not yet consumed
C20_Witness ==
    /\ stream[Sub1].state = "open"
    /\ Len(stream[Sub1].queue) = CHANNEL_CAPACITY
    /\ stream[Sub1].ppc = "send"
    /\ stream[Sub1].received = 1
    /\ stream[Sub1].counter = 12

\* C21: the producer of an event stream leaves its loop only in a step
\* where its send fails because the consumer has closed its end; while the
\* consumer is connected the producer has not terminated; and once the
\* consumer has closed its end the producer eventually terminates, also
\* when it was suspended on a full channel at that moment
C21_ProducerExitsOnFailedSend ==
    /\ [][(stream[Sub1].ppc # "done" /\ stream'[Sub1].ppc = "done")
          => (stream[Sub1].ppc = "send" /\ stream[Sub1].state = "closed")]_vars
    /\ [](stream[Sub1].state = "open" => stream[Sub1].ppc # "done")
    /\ (stream[Sub1].state = "closed") ~> (stream[Sub1].ppc = "done")
    /\ (stream[Sub1].state = "closed" /\ stream[Sub1].suspended)
          ~> (stream[Sub1].ppc = "done")

\* the consumer closed while the producer was suspended on a full channel,
\* and the producer has terminated
C21_Witness ==
    /\ stream[Sub1].state = "closed"
    /\ stream[Sub1].suspended
    /\ stream[Sub1].ppc = "done"
    /\ stream[Sub1].counter = CHANNEL_CAPACITY + 1

\* C22: every stream has its own producer, counter and channel: what a
\* subscriber has received, what its channel holds and what its producer
\* holds are the events task_1, task_2, ... of its own counter in order,
\* without gap or duplicate, whatever the other subscribers do; a step of
\* one stream leaves every other stream as it was; a producer terminates
\* only when its own consumer has closed; and a producer with room in its
\* own channel can send even when another subscriber's channel is full or
\* closed
C22_IndependentStreams ==
    /\ [](\A s \in Subscribers :
            /\ stream[s].state = "open"
               => /\ \A i \in 1..Len(stream[s].queue) :
                        stream[s].queue[i] = TaskEvent(stream[s].received + i)
                  /\ stream[s].ppc = "send"
                     => stream[s].event
                          = Some(TaskEvent(stream[s].received + Len(stream[s].queue) + 1))
                  /\ stream[s].counter
                       = stream[s].received + Len(stream[s].queue)
                         + (IF stream[s].ppc = "send" THEN 1 ELSE 0)
            /\ stream[s].ppc = "done" => stream[s].state = "closed"
            /\ (/\ stream[s].state = "open" /\ stream[s].ppc = "send"
                /\ Len(stream[s].queue) < CHANNEL_CAPACITY)
               => ENABLED SE_Send(s))
    /\ [][\A s \in Subscribers :
            /\ stream'[s] # stream[s]
               => \A t \in Subscribers \ {s} : stream'[t] = stream[t]
            /\ stream'[s].received # stream[s].received
               => stream'[s].received = stream[s].received + 1]_vars

\* one subscriber never reads, its channel is full and its producer
\* suspended, while another subscriber has received its third event behind
\* it
C22_Witness ==
    \E s, t \in Subscribers :
        /\ s # t
        /\ stream[s].state = "open" /\ stream[s].received = 0
        /\ Len(stream[s].queue) = CHANNEL_CAPACITY /\ stream[s].ppc = "send"
        /\ stream[t].state = "open" /\ stream[t].received = 3
        /\ stream[t].counter = 3

\* the responses of an import in the order the pipeline produced them:
\* those the client has, those in the channel, the one being sent
ImportResponses ==
    calls.import.delivered \o calls.import.queue \o calls.import.pending

\* C23: while the consumer of an import stays connected, the responses
\* produced are one per inbound element taken, in arrival order: a success
\* carrying the task that was stored for an element that decoded, a failure
\* for an element that did not; an element that decodes gets exactly one
\* new task stored before the next is taken, and one that does not leaves
\* the store as it was; and the pipeline stops only at the end of the
\* inbound stream
C23_OneResponsePerElement ==
    /\ [](calls.import.state = "open"
          => /\ Len(ImportResponses) + (IF calls.import.ppc = "store" THEN 1 ELSE 0)
                   = Len(calls.import.taken)
             /\ \A i \in 1..Len(ImportResponses) :
                   IF calls.import.taken[i].err
                   THEN ImportResponses[i] = ImportFailed
                   ELSE /\ ImportResponses[i].success
                        /\ ImportResponses[i].task # None
                        /\ ImportResponses[i].task[1].title = calls.import.taken[i].req.title
                        /\ get_task(data, ImportResponses[i].task[1].id)
                             = ImportResponses[i].task
             /\ \A i, j \in 1..Len(ImportResponses) :
                   (i # j /\ ImportResponses[i].success /\ ImportResponses[j].success)
                   => ImportResponses[i].task[1].id # ImportResponses[j].task[1].id
             /\ calls.import.ppc # "store"
                => count_tasks(data)
                     = Cardinality({i \in 1..Len(ImportResponses) : ImportResponses[i].success})
             /\ calls.import.ppc \notin {"done", "panicked"})
    /\ [][(calls.import.state = "open"
           /\ Len(calls'.import.taken) = Len(calls.import.taken) + 1)
          => LET elem == calls'.import.taken[Len(calls'.import.taken)]
             IN  /\ data' = data
                 /\ calls'.import.ppc = (IF elem.err THEN "send" ELSE "store")]_vars
    /\ [][data' # data
          => /\ calls.import.ppc = "store"
             /\ count_tasks(data') = count_tasks(data) + 1
             /\ \A id \in DOMAIN data.tasks : get_task(data', id) = get_task(data, id)
             /\ data'.users = data.users]_vars
    /\ [][(calls.import.state = "open" /\ calls.import.ppc # "ended"
           /\ calls'.import.ppc = "ended")
          => (calls.import.ppc = "next" /\ calls'.import.taken = calls.import.taken)]_vars

\* the value of a metadata field in the first chunk where it is non-empty
RECURSIVE FirstNonEmpty(_, _)
FirstNonEmpty(chunks, field) ==
    IF chunks = <<>> THEN <<>>
    ELSE IF Head(chunks)[field] # <<>> THEN Head(chunks)[field]
    ELSE FirstNonEmpty(Tail(chunks), field)

\* C24: during and after the assembly of an upload, each of task_id,
\* filename and content_type holds the value of the first chunk taken in
\* which that field is non-empty
C24_FirstNonEmptyWins ==
    \A field \in {"task_id", "filename", "content_type"} :
        calls.upload.acc[field] = FirstNonEmpty(calls.upload.taken, field)

\* C25: an upload runs its finalization at most once, beginning in the step
\* where its chunk stream ends normally; the finalization changes nothing
\* in the store but the updated_at of the task the upload names and reports
\* the total number of bytes; taking a chunk and ending with an error leave
\* the store and the files as they were
C25_FinalizeOnceAtEnd ==
    /\ [](calls.upload.finalized <= 1)
    /\ [](calls.upload.finalized = 1 <=> calls.upload.state = "done")
    /\ []((last.op = "upload_task_attachment" /\ last.status = "Ok")
          => last.out.file_size = Len(calls.upload.taken))
    /\ [][calls'.upload # calls.upload
          => /\ data' = data /\ disk' = disk
             /\ calls'.upload.finalized # calls.upload.finalized
                => /\ calls.upload.state = "open" /\ calls'.upload.state = "done"
                   /\ calls'.upload.taken = calls.upload.taken]_vars
    /\ [][\A p \in Procs :
            (loc[p].op = "upload_task_attachment" /\ data' # data)
            => /\ pc[p] = "rw_put"
               /\ loc[p].id = calls.upload.acc.task_id
               /\ get_task(data, loc[p].id) # None
               /\ data' = [data EXCEPT !.tasks[loc[p].id].updated_at =
                                           loc[p].patch.updated_at]]_vars

\* an upload of two chunks was finalized after the clock moved: the task
\* it names carries the new updated_at and the response the two bytes
C25_Witness ==
    /\ calls.upload.state = "done"
    /\ Len(calls.upload.taken) = 2
    /\ calls.upload.acc.task_id = TaskId(1)
    /\ get_task(data, TaskId(1)) # None
    /\ get_task(data, TaskId(1))[1].created_at = Some(system_time_to_timestamp(0))
    /\ get_task(data, TaskId(1))[1].updated_at = Some(system_time_to_timestamp(1))
    /\ last.op = "upload_task_attachment" /\ last.out.file_size = 2

\* the states between whole operations that a reader may see: the state
\* itself, or, while a critical section is open, the state it found and
\* the state the whole operation leads to
BetweenOperations ==
    IF \E p \in Procs : pc[p] = "at_step"
    THEN LET p == CHOOSE q \in Procs : pc[q] = "at_step"
         IN  {loc[p].before, WholeOp(loc[p].op, loc[p].before, loc[p].patch)}
    ELSE {data}

\* C26: the snapshot a save takes is a state between whole create_user,
\* delete_user, create_task, delete_task and batch operations, never one
\* with only some of the maps of an operation written; a critical section
\* ends with the store at the result of the whole operation; a task inside
\* a critical section holds the lock as its only holder, and a task reading
\* for a save holds it while no writer does
C26_ReadersSeeWholeOperations ==
    /\ [][\A q \in Procs :
            (pc[q] = "sv_lock" /\ pc'[q] = "sv_mkdir")
            => Deserialize(loc'[q].json) \in BetweenOperations]_vars
    /\ [][\A p \in Procs :
            (pc[p] = "at_step" /\ pc'[p] # "at_step")
            => data = WholeOp(loc[p].op, loc[p].before, loc[p].patch)]_vars
    /\ [](\A p \in Procs :
            /\ pc[p] = "at_step" => (lock.writer = p /\ lock.readers = {})
            /\ pc[p] \in {"sv_mkdir", "sv_open", "sv_write", "sv_rename", "sv_unlock"}
               => (p \in lock.readers /\ lock.writer = 0))

\* a batch has inserted the first of its two users and put the second in
\* the primary map only, while another task waits in the queue of the lock
\* to take the snapshot of a save
C26_Witness ==
    \E p, q \in Procs :
        /\ pc[p] = "at_step" /\ loc[p].op = "batch_create_users"
        /\ UserId(2) \in DOMAIN data.users
        /\ DOMAIN data.users_by_email = {"e1"}
        /\ pc[q] = "sv_lock"
        /\ q \in Range(lock.waiting)

\* C27: delete_task and delete_user answer true exactly when the identifier
\* was in the store; a delete of an absent identifier, a second delete of
\* the same identifier included, answers false, changes nothing in the
\* store and in the files, and does not reach the auto-save
C27_DeleteReportsRemoval ==
    /\ [][\A p \in Procs :
            /\ (pc[p] = "dt_delete" /\ pc'[p] # "dt_delete")
               => /\ loc'[p].out = (loc[p].req.id \in DOMAIN data.tasks)
                  /\ loc[p].req.id \notin DOMAIN data'.tasks
                  /\ loc'[p].saved = loc'[p].out
                  /\ ~loc'[p].out => (data' = data /\ disk' = disk /\ pc'[p] = "ret")
            /\ (pc[p] = "du_delete" /\ pc'[p] # "du_delete")
               => /\ loc'[p].out = (loc[p].req.id \in DOMAIN data.users)
                  /\ loc[p].req.id \notin DOMAIN data'.users
                  /\ loc'[p].saved = loc'[p].out
                  /\ ~loc'[p].out => (data' = data /\ disk' = disk /\ pc'[p] = "ret")
            /\ (/\ pc[p] = "ret" /\ pc'[p] # "ret"
                /\ loc[p].op \in {"delete_task", "delete_user"})
               => (/\ last'.out = loc[p].out /\ last'.saved = loc[p].saved
                   /\ data' = data /\ disk' = disk)]_vars
    /\ [](last.op \in {"delete_task", "delete_user"}
          => (last.status = "Ok" /\ last.saved = last.out))

\* a task that was created and deleted is deleted once more: the answer is
\* false, while another task is still stored
C27_Witness ==
    /\ last.op = "delete_task"
    /\ last.req.id = TaskId(1)
    /\ uuid.tasks = 2
    /\ last.out = FALSE /\ ~last.saved
    /\ DOMAIN data.tasks = {TaskId(2)}

\* C28: delete_user leaves the task map as it was: every task is still
\* there with every field, assigned_to included, unchanged
C28_DeleteUserKeepsTasks ==
    [][\A p \in Procs :
          (loc[p].op = "delete_user" \/ loc'[p].op = "delete_user")
          => data'.tasks = data.tasks]_vars

\* a user was deleted and a task still names that user in assigned_to
C28_Witness ==
    /\ last.op = "delete_user"
    /\ last.out = TRUE
    /\ get_user(data, last.req.id) = None
    /\ \E t \in DOMAIN data.tasks : data.tasks[t].assigned_to = last.req.id

\* C29: update_user and update_task at the store succeed on an identifier
\* that is absent as on one that is present, never with NotFound; in both
\* cases the entity stored under the identifier afterwards is exactly the
\* entity supplied, with no field of a previous entity kept, and no other
\* user, respectively task, is touched
C29_UpdateIsUpsert ==
    /\ [][\A p \in Procs :
            /\ (/\ pc[p] = "ru_put" /\ pc'[p] # "ru_put"
                /\ loc[p].op = "update_user")
               => /\ loc'[p].resp = "Ok"
                  /\ get_user(data', loc[p].req.id) = Some(loc[p].patch)
                  /\ loc[p].patch.id = loc[p].req.id
                  /\ DOMAIN data'.users = DOMAIN data.users \cup {loc[p].req.id}
                  /\ \A id \in DOMAIN data.users \ {loc[p].req.id} :
                        get_user(data', id) = get_user(data, id)
            /\ (/\ pc[p] = "rw_put" /\ pc'[p] # "rw_put"
                /\ loc[p].op = "storage.update_task")
               => /\ loc'[p].resp = "Ok"
                  /\ get_task(data', loc[p].req.id) = Some(loc[p].patch)
                  /\ loc[p].patch.id = loc[p].req.id
                  /\ DOMAIN data'.tasks = DOMAIN data.tasks \cup {loc[p].req.id}
                  /\ \A id \in DOMAIN data.tasks \ {loc[p].req.id} :
                        get_task(data', id) = get_task(data, id)]_vars
    /\ [](/\ last.op = "update_user"
             => /\ last.status \in {"Ok", "InvalidArgument"}
                /\ last.status = "Ok" => get_user(data, last.req.id) = Some(last.out)
          /\ last.op = "storage.update_task"
             => /\ last.status = "Ok"
                /\ get_task(data, last.req.id) = Some(last.out))

\* a task was updated under an identifier that was never created, next to
\* a user updated under an identifier that was never created: both are now
\* stored as supplied
C29_Witness ==
    /\ last.op = "storage.update_task"
    /\ last.req.id = GhostId
    /\ get_task(data, GhostId) = Some(last.out)
    /\ get_user(data, GhostId) # None
    /\ get_user(data, GhostId)[1].username = "n2"

\* C30: a client that follows the tokens of list_tasks from the empty token
\* on, with pages of p > 0 and no mutation in between, never receives a
\* task twice, needs no more than n div p + 1 requests for n tasks, and has
\* received every task when it is given the empty token
C30_TokenWalkTerminates ==
    calls.client.state # "idle"
    => /\ \A i, j \in 1..Len(calls.client.got) :
             i # j => calls.client.got[i] # calls.client.got[j]
       /\ calls.client.requests <= (count_tasks(data) \div calls.client.page_size) + 1
       /\ calls.client.state = "done"
          => Range(calls.client.got) = DOMAIN data.tasks

\* C31: an issued task identifier that is absent from the task map (its
\* delete_task returned true) is absent after every further step, whatever
\* bulk_update_tasks or upload finalization was running when it was deleted
C31_DeletedTaskStaysDeleted ==
    [][\A id \in IssuedTaskIds \ {loc[p].id : p \in Creating} :
          id \notin DOMAIN data.tasks => id \notin DOMAIN data'.tasks]_vars

\* C32: a title set by a patch stays as patched while the task exists,
\* whatever bulk_update_tasks or upload finalization writes back (neither
\* edits the title)
C32_PatchNotUndone ==
    [][\A id \in DOMAIN data.tasks :
          (data.tasks[id].title = <<"T", "1">> /\ id \in DOMAIN data'.tasks)
             => data'.tasks[id].title = <<"T", "1">>]_vars

\* the create_user requests that have drawn their identifier and not stored
\* their user
CreatingUser == {p \in Procs : pc[p] = "cu_insert"}

\* C33: an issued user identifier that is absent from the primary user map
\* (its delete_user returned true) is absent after every further step, for
\* every interleaving with login, authenticate_user and
\* update_user_preferences; and every user in the map has a user_tasks
\* entry and an email-index entry for its email
C33_DeletedUserStaysDeleted ==
    /\ [][\A id \in IssuedUserIds \ {loc[p].patch.id : p \in CreatingUser} :
             id \notin DOMAIN data.users => id \notin DOMAIN data'.users]_vars
    /\ [](\A id \in DOMAIN data.users :
             /\ id \in DOMAIN data.user_tasks
             /\ data.users[id].email \in DOMAIN data.users_by_email)

\* C34: every entry of the email index and of the username index points to
\* a user that is in the primary map and whose current email / username is
\* the key of the entry
C34_IndexesPointToCurrentUser ==
    /\ \A e \in DOMAIN data.users_by_email :
          /\ data.users_by_email[e] \in DOMAIN data.users
          /\ data.users[data.users_by_email[e]].email = e
    /\ \A u \in DOMAIN data.users_by_username :
          /\ data.users_by_username[u] \in DOMAIN data.users
          /\ data.users[data.users_by_username[u]].username = u

\* C35: delete_user(a) leaves the result of get_user_by_email and of
\* get_user_by_username as it was for every key that resolved to a user
\* other than a
C35_DeleteUserFrame ==
    [][\A p \in Procs :
          (pc[p] = "du_delete" /\ pc'[p] # "du_delete") =>
          /\ \A e \in Emails :
                (get_user_by_email(data, e) # None
                    /\ get_user_by_email(data, e)[1].id # loc[p].req.id)
                => get_user_by_email(data', e) = get_user_by_email(data, e)
          /\ \A u \in Usernames :
                (get_user_by_username(data, u) # None
                    /\ get_user_by_username(data, u)[1].id # loc[p].req.id)
                => get_user_by_username(data', u) = get_user_by_username(data, u)]_vars

\* C36: when page_size covers the whole list of user u, the first page of
\* get_user_tasks holds as many tasks as count_user_tasks(u) reports
C36_CountMatchesList ==
    (/\ last.op = "get_user_tasks" /\ last.status = "Ok"
     /\ page_num(last.req.page_token) = Uint(0)
     /\ last.req.page_size >= last.out.total_count)
    => Len(last.out.items) = last.out.total_count

\* C37: a page of get_tasks_by_user(u, p, k) with fewer than p tasks is
\* the end of the list: no later page holds a task of u
C37_ShortPageIsLast ==
    (/\ last.op = "get_user_tasks" /\ last.status = "Ok"
     /\ Len(last.out.items) < last.req.page_size)
    => \A j \in 1..(MaxOwnedTasks + 1) :
          get_tasks_by_user(data, last.req.user_id, last.req.page_size,
                            format_page(Plus(page_num(last.req.page_token), j)))
             = {Some(<<>>)}

\* C38: a successful UpdateTask response carries the task as it is stored
\* after the patch, in every field
C38_ResponseIsStoredTask ==
    (last.op = "update_task" /\ last.status = "Ok")
    => last.out = data.tasks[last.req.id]

\* C39: in a streamed import the task of a success response is in the
\* store before the response is enqueued; the tasks created exceed the
\* responses the consumer has taken by at most CHANNEL_CAPACITY + 1; once
\* the consumer has disconnected the pipeline stores at most one further
\* task (the one it creates before its next send fails) and then exits;
\* and no task the import stored is removed or changed again
C39_ImportBackpressure ==
    /\ [][Len(calls'.import.queue) > Len(calls.import.queue)
          => LET r == calls'.import.queue[Len(calls'.import.queue)]
             IN  r.success => get_task(data, r.task[1].id) = r.task]_vars
    /\ [](count_tasks(data) - Len(calls.import.delivered) <= CHANNEL_CAPACITY + 1)
    /\ [][calls.import.state = "closed"
          => /\ calls'.import.state = "closed"
             /\ count_tasks(data') > count_tasks(data)
                => /\ calls.import.ppc = "store"
                   /\ count_tasks(data') = count_tasks(data) + 1
             /\ calls.import.ppc = "store"
                => calls'.import.ppc \in {"store", "send"}
             /\ calls.import.ppc = "send" => calls'.import.ppc \in {"send", "done"}
             /\ calls.import.ppc \in {"done", "ended"}
                => calls'.import.ppc = calls.import.ppc]_vars
    /\ [][\A id \in DOMAIN data.tasks : get_task(data', id) = get_task(data, id)]_vars

\* the consumer left with the channel full and nothing taken; the pipeline
\* stored an eleventh task, failed to send its response and exited
C39_Witness ==
    /\ calls.import.state = "closed"
    /\ calls.import.ppc = "done"
    /\ calls.import.delivered = <<>>
    /\ Len(calls.import.taken) = CHANNEL_CAPACITY + 1
    /\ count_tasks(data) = CHANNEL_CAPACITY + 1

\* C40: a handler that asks for the store lock holds no guard of it (the
\* auto-save starts after the write guard is dropped), and so, under fair
\* scheduling and with file calls that return, every operation that was
\* invoked returns: no task stays busy for ever
C40_NoDeadlock ==
    /\ [](\A p \in Procs :
             pc[p] \in WriteLabels \cup ReadLabels \cup {"idle"}
                => (p \notin lock.readers /\ lock.writer # p))
    /\ \A p \in Procs : []<>(pc[p] = "idle")

\* a handler waits at the head of the queue to write while another holds
\* the read guard of a backup it is writing
C40_Witness ==
    \E p, q \in Procs :
        /\ pc[p] \in WriteLabels
        /\ lock.waiting # <<>> /\ Head(lock.waiting) = p
        /\ pc[q] = "sv_open" /\ loc[q].op = "backup_to"
        /\ q \in lock.readers
        /\ ~ write_admits(lock, p)

=============================================================================
